---- MODULE Spec2Model ----
(***************************************************************************)
(* A model of the home-finder core:                                        *)
(*   - core/commute.py   : CommuteChecker, the travel-time resolver with   *)
(*                         its on-disk cache and two routing providers;    *)
(*   - core/enrichers.py : _retry_with_backoff, _query_overpass and the    *)
(*                         three gatherers;                                *)
(*   - core/scorer.py    : score_area, on exact fractions;                 *)
(*   - core/commute.py   : the departure time of a routing query.          *)
(* Python's None is modelled, for an Optional[int], as the empty sequence  *)
(* (<<>>) against the one-element sequence <<v>>, and for an optional      *)
(* string as the string NoStr.                                             *)
(***************************************************************************)
EXTENDS Integers, Sequences, FiniteSets, TLC

----------------------------------------------------------------------------
(* Bounds of the model *)

\* cache_time is called at most this many times in one behaviour
MaxWrites == 2

\* a response carries at most this many features / incidents
MaxElems == 2

----------------------------------------------------------------------------
(* Values shared by the two components *)

NoStr == "<None>"

None == <<>>

Some(v) == <<v>>

\* Python truthiness of an optional string (os.getenv result)
Truthy(v) == v # NoStr /\ v # ""

----------------------------------------------------------------------------
(* State *)

\* core/commute.py: a CommuteChecker and its cache file
VARIABLES
    cache,              \* CommuteChecker.cache: lowercased name -> minutes
    cacheFile,          \* contents of data/cache/commute_times.json
    traveltime_app_id,  \* os.getenv("TRAVELTIME_APP_ID")
    traveltime_api_key, \* os.getenv("TRAVELTIME_API_KEY")
    google_api_key,     \* os.getenv("GOOGLE_MAPS_API_KEY")
    lastOp,             \* the operation performed last: "none", "cache_time", "get"
    lastGet,            \* what the last get_train_time_to_kx did and returned
    writes              \* history of the cache_time calls, oldest first

commuteVars == <<cache, cacheFile, traveltime_app_id, traveltime_api_key,
                 google_api_key, lastOp, lastGet, writes>>

\* core/enrichers.py: one call of a gatherer
VARIABLES
    pc,           \* "idle", "fetch" (a request is about to be sent), "done"
    kind,         \* the gatherer running: "amenities", "nature", "crime"
    attempt,      \* _retry_with_backoff: the loop index, 0-based
    endpoint,     \* _query_overpass: index of the endpoint to contact next
    delay,        \* _retry_with_backoff: delay
    last_error,   \* the exception caught last (NoErr when none)
    sleeps,       \* history: the arguments of time.sleep, in order
    requests,     \* history: the HTTP requests sent, in order
    attemptErrs,  \* history: the error each failed call of func() ended with
    data,         \* the response _retry_with_backoff returned (NoData when none)
    result,       \* the dict the gatherer builds and returns
    raisedErr,    \* the error _retry_with_backoff raised to the gatherer
    escaped       \* TRUE when an exception left the gatherer

gatherVars == <<pc, kind, attempt, endpoint, delay, last_error, sleeps, requests,
                attemptErrs, data, result, raisedErr, escaped>>

\* core/scorer.py: one call of score_area
VARIABLES
    area,         \* argument area: commute_minutes and mainline_changes
    amenities,    \* argument amenities: the dict of gather_amenities
    nature,       \* argument nature: the dict of gather_nature_data
    crime,        \* argument crime: None or the dict of gather_crime_data
    criteria,     \* the contents of config/criteria.yaml
    scores,       \* the dict scores, one sub-score per category
    total,        \* the weighted sum, before rounding
    score,        \* the value score_area returned
    scorePc       \* "idle", "called" (arguments chosen), "done"

scoreVars == <<area, amenities, nature, crime, criteria, scores, total, score,
               scorePc>>

\* core/commute.py: the departure time of a routing query
VARIABLES
    now_weekday,  \* datetime.utcnow().weekday(): 0 is Monday, 6 is Sunday
    now_hour,     \* datetime.utcnow().hour
    departure,    \* the departure times computed for the two providers
    departPc      \* "idle", "clock" (the clock was read), "done"

departVars == <<now_weekday, now_hour, departure, departPc>>

\* core/stations.py: a StationDatabase and its snapshot file
VARIABLES
    stationsFile, \* data/stations.json: None when absent, else Some(list)
    stations,     \* StationDatabase.stations
    dbPc,         \* "none" (no StationDatabase built), "loaded", "refreshed"
    nearby        \* what get_stations_near_london returned last

stationVars == <<stationsFile, stations, dbPc, nearby>>

\* scripts/find_commutable_areas.py: one discovery run
VARIABLES
    discPc,       \* "idle", "loop" (in the loop over candidates), "done"
    candidates,   \* find_commutable_stations: candidates
    discIdx,      \* index of the candidate the loop handles next
    commutable,   \* find_commutable_stations: commutable
    discArgs      \* max_minutes and walking_buffer of the run

discVars == <<discPc, candidates, discIdx, commutable, discArgs>>

\* the files shared by the two scripts, and the notifications sent
VARIABLES
    areasFile,    \* config/areas.yaml: None when absent, else Some(dict)
    areaCaches,   \* data/cache/area_*.json: file name -> contents
    notified,     \* the names of the areas a Telegram update was sent for
    areaHistory   \* history: the areas (name and station) areas.yaml has
                  \* listed, and those it has shown as explored

areaVars == <<areasFile, areaCaches, notified, areaHistory>>

\* scripts/daily_explore.py: one exploration run
VARIABLES
    runPc,        \* position of the run: "idle", "amenities", "nature",
                  \* "score", "update", "done", "failed" (the exception
                  \* left main), "exit" (sys.exit before any exploration)
    runArgs,      \* the command line: area, dry_run, no_notify
    areas_data,   \* main: areas_data as load_areas returned it
    runArea,      \* main: area, the list element picked (index and entry)
    cache_data,   \* explore_area: cache_data
    gathered,     \* the results of the gatherers called so far, by name
    runCriteria,  \* the criteria.yaml score_area will find (None: unusable)
    runsDone,     \* history: completed non-dry runs without --area that
                  \* found a pending area
    initialAreas  \* history: the list of areas before the first run

runVars == <<runPc, runArgs, areas_data, runArea, cache_data, gathered,
             runCriteria, runsDone, initialAreas>>

pipelineVars == <<stationVars, discVars, areaVars, runVars>>

vars == <<commuteVars, gatherVars, scoreVars, departVars, pipelineVars>>

----------------------------------------------------------------------------
(* core/commute.py *)

\* station names are strings, modelled as sequences of characters
StationNames == { <<"E", "l", "y">>, <<"E", "L", "Y">>, <<"A", "y", "r">> }

\* the lowercase letter of each uppercase letter
LowerCaseOf ==
    ("A" :> "a") @@ ("B" :> "b") @@ ("C" :> "c") @@ ("D" :> "d")
        @@ ("E" :> "e") @@ ("F" :> "f") @@ ("G" :> "g") @@ ("H" :> "h")
        @@ ("I" :> "i") @@ ("J" :> "j") @@ ("K" :> "k") @@ ("L" :> "l")
        @@ ("M" :> "m") @@ ("N" :> "n") @@ ("O" :> "o") @@ ("P" :> "p")
        @@ ("Q" :> "q") @@ ("R" :> "r") @@ ("S" :> "s") @@ ("T" :> "t")
        @@ ("U" :> "u") @@ ("V" :> "v") @@ ("W" :> "w") @@ ("X" :> "x")
        @@ ("Y" :> "y") @@ ("Z" :> "z")

UpperCaseLetters == DOMAIN LowerCaseOf

\* str.lower() on one character
LowerChar(c) == IF c \in UpperCaseLetters THEN LowerCaseOf[c] ELSE c

\* str.lower()
Lower(s) == [i \in 1..Len(s) |-> LowerChar(s[i])]

Minutes == {0, 35}

\* what os.getenv can give: unset, set to the empty string, set to a value
EnvValues == {NoStr, "", "key"}

EmptyCache == [k \in {} |-> 0]

\* the cache files a previous run of the program can have left behind
InitialFiles == { EmptyCache, [k \in {<<"a", "y", "r">>} |-> 50] }

\* _load_cache: the file's contents, or {} when there is no file
LoadCache(file) == file

\* dict.get(key): None when the key is absent
DictGet(d, k) == IF k \in DOMAIN d THEN Some(d[k]) ELSE None

\* d[key] = value
DictSet(d, k, v) == [x \in (DOMAIN d) \cup {k} |-> IF x = k THEN v ELSE d[x]]

\* variant: the lookup without lower()
GetCachedTime_NoLower(station_name) == DictGet(cache, station_name)

\* get_cached_time
GetCachedTime(station_name) == DictGet(cache, Lower(station_name))

\* The response of Provider A (TravelTime) to one request:
\*   error          the request raised (HTTP error, timeout, malformed body)
\*   no_results     "results" is empty, or its first entry has no locations
\*   no_travel_time the location carries no travel_time property
\*   ok             travel_time = secs
RespA ==
    { [kind |-> k, secs |-> 0] : k \in {"error", "no_results", "no_travel_time"} }
    \cup { [kind |-> "ok", secs |-> s] : s \in {0, 59, 2100} }

\* The response of Provider B (Google Maps) to one request:
\*   error      the request raised (HTTP error, timeout)
\*   no_routes  "routes" is absent or empty
\*   bad_shape  a route without legs / duration / value (KeyError, IndexError)
\*   ok         routes[0].legs[0].duration.value = secs
RespB ==
    { [kind |-> k, secs |-> 0] : k \in {"error", "no_routes", "bad_shape"} }
    \cup { [kind |-> "ok", secs |-> s] : s \in {59, 2100} }

\* the outcome of a provider query: the value it returned; raised tells
\* whether an exception left the query instead, which the try/except of both
\* queries rules out
Returned(v) == [val |-> v, raised |-> FALSE]

\* _query_traveltime: every exception is caught and gives None; a travel
\* time that is falsy (absent or 0) gives None
QueryTraveltime(resp) ==
    CASE resp.kind = "error" -> Returned(None)
      [] resp.kind \in {"no_results", "no_travel_time"} -> Returned(None)
      [] OTHER -> IF resp.secs # 0 THEN Returned(Some(resp.secs \div 60))
                  ELSE Returned(None)

\* _query_google_maps: every exception is caught and gives None
QueryGoogleMaps(resp) ==
    CASE resp.kind \in {"error", "bad_shape"} -> Returned(None)
      [] resp.kind = "no_routes" -> Returned(None)
      [] OTHER -> Returned(Some(resp.secs \div 60))

NotCalled == [val |-> None, raised |-> FALSE]

\* variant: the two providers tried in the opposite order
ResolveTrainTime_BFirst(station_name, respA, respB) ==
    LET cached == GetCachedTime(station_name)
        useA == Truthy(traveltime_app_id) /\ Truthy(traveltime_api_key)
        useB == Truthy(google_api_key)
        callB == cached = None /\ useB
        qB == IF callB THEN QueryGoogleMaps(respB) ELSE NotCalled
        callA == cached = None /\ useA /\ (~callB \/ (~qB.raised /\ qB.val = None))
        qA == IF callA THEN QueryTraveltime(respA) ELSE NotCalled
    IN  [ name |-> station_name,
          miss |-> cached = None,
          calls |-> (IF callB THEN <<"B">> ELSE <<>>) \o (IF callA THEN <<"A">> ELSE <<>>),
          qA |-> qA.val,
          qB |-> qB.val,
          escaped |-> qA.raised \/ qB.raised,
          ret |-> CASE cached # None -> cached
                    [] qA.raised \/ qB.raised -> None
                    [] callB /\ qB.val # None -> qB.val
                    [] callA /\ qA.val # None -> qA.val
                    [] OTHER -> None ]

\* get_train_time_to_kx as a function of the cache, the configuration and of
\* what each provider would answer: the cached value, else Provider A when
\* both its credentials are set, else Provider B when its key is set, else None.
\* An exception raised by a query leaves the call at once (escaped).
ResolveTrainTime(station_name, respA, respB) ==
    LET cached == GetCachedTime(station_name)
        useA == Truthy(traveltime_app_id) /\ Truthy(traveltime_api_key)
        useB == Truthy(google_api_key)
        callA == cached = None /\ useA
        qA == IF callA THEN QueryTraveltime(respA) ELSE NotCalled
        callB == cached = None /\ useB /\ ~qA.raised /\ (~callA \/ qA.val = None)
        qB == IF callB THEN QueryGoogleMaps(respB) ELSE NotCalled
    IN  [ name |-> station_name,
          miss |-> cached = None,
          calls |-> (IF callA THEN <<"A">> ELSE <<>>) \o (IF callB THEN <<"B">> ELSE <<>>),
          qA |-> qA.val,
          qB |-> qB.val,
          escaped |-> qA.raised \/ qB.raised,
          ret |-> CASE cached # None -> cached
                    [] qA.raised \/ qB.raised -> None
                    [] callA /\ qA.val # None -> qA.val
                    [] callB /\ qB.val # None -> qB.val
                    [] OTHER -> None ]

NoGet ==
    [ name |-> <<>>, miss |-> FALSE, calls |-> <<>>, qA |-> None, qB |-> None,
      escaped |-> FALSE, ret |-> None ]

InitCommute ==
    /\ cacheFile \in InitialFiles
    /\ cache = LoadCache(cacheFile)
    /\ traveltime_app_id \in EnvValues \ {""}
    /\ traveltime_api_key \in EnvValues
    /\ google_api_key \in EnvValues \ {""}
    /\ lastOp = "none"
    /\ lastGet = NoGet
    /\ writes = <<>>

\* cache_time: store under the lowercased name, then _save_cache
CacheTime(station_name, minutes) ==
    /\ Len(writes) < MaxWrites
    /\ cache' = DictSet(cache, Lower(station_name), minutes)
    /\ cacheFile' = cache'
    /\ writes' = Append(writes, [name |-> station_name, minutes |-> minutes])
    /\ lastOp' = "cache_time"
    /\ UNCHANGED <<traveltime_app_id, traveltime_api_key, google_api_key, lastGet>>
    /\ UNCHANGED <<gatherVars, scoreVars, departVars, pipelineVars>>

\* variant: a resolver that caches and saves what it resolved
GetTrainTimeToKx_AutoCache(station_name, respA, respB) ==
    LET r == ResolveTrainTime(station_name, respA, respB)
    IN  /\ lastGet' = r
        /\ lastOp' = "get"
        /\ cache' = IF r.ret # None THEN DictSet(cache, Lower(station_name), r.ret[1])
                    ELSE cache
        /\ cacheFile' = cache'
        /\ UNCHANGED <<traveltime_app_id, traveltime_api_key, google_api_key, writes>>
        /\ UNCHANGED <<gatherVars, scoreVars, departVars, pipelineVars>>

\* get_train_time_to_kx: resolves and returns; it assigns nothing to
\* self.cache and never calls _save_cache
GetTrainTimeToKx(station_name, respA, respB) ==
    /\ lastGet' = ResolveTrainTime(station_name, respA, respB)
    /\ lastOp' = "get"
    /\ UNCHANGED <<cache, cacheFile, traveltime_app_id, traveltime_api_key,
                   google_api_key, writes>>
    /\ UNCHANGED <<gatherVars, scoreVars, departVars, pipelineVars>>

----------------------------------------------------------------------------
(* core/enrichers.py: the shared retry policy and the endpoint fallback *)

Min(a, b) == IF a <= b THEN a ELSE b

\* OVERPASS_ENDPOINTS has two entries; the crime feed has a single URL
NumOverpassEndpoints == 2

\* _retry_with_backoff's parameters as the gatherers pass or default them
MaxRetries == 3

InitialDelay == 2

MaxDelay == 30

\* variant: 404 counts as retryable too
RetryOnStatus_With404 == {429, 500, 502, 503, 504, 404}

RetryOnStatus == {429, 500, 502, 503, 504}

GathererKinds == {"amenities", "nature", "crime"}

\* the HTTP statuses the remote service answers with in the model
StatusCodes == {429, 503, 404}

\* What can go wrong with one HTTP request:
\*   http     raise_for_status raised httpx.HTTPStatusError (status)
\*   timeout  httpx.TimeoutException
\*   connect  httpx.ConnectError
\*   other    any other exception, e.g. response.json() on a malformed body
Failures ==
    { [kind |-> "http", status |-> s] : s \in StatusCodes }
    \cup { [kind |-> k, status |-> 0] : k \in {"timeout", "connect", "other"} }

\* an exception object: the failure, and the request that produced it
Err(f, a, e) == [kind |-> f.kind, status |-> f.status, attempt |-> a, endpoint |-> e]

NoErr == [kind |-> "none", status |-> 0, attempt |-> 0, endpoint |-> 0]

NumEndpoints(k) == IF k = "crime" THEN 1 ELSE NumOverpassEndpoints

\* variant: no fallback to the second endpoint
MoreEndpoints_None(k, e) == FALSE

\* _query_overpass: an endpoint's exception is swallowed (continue) while
\* another endpoint is left in the list; _fetch_crimes has one request only
MoreEndpoints(k, e) == e < NumEndpoints(k)

\* variant: attempt < max_retries in place of attempt < max_retries - 1
ShouldRetry_OffByOne(err, a) ==
    IF err.kind = "http"
    THEN err.status \in RetryOnStatus /\ a < MaxRetries
    ELSE a < MaxRetries

\* _retry_with_backoff: the condition under which a failed attempt is
\* followed by a sleep and another attempt (else the exception is re-raised)
ShouldRetry(err, a) ==
    IF err.kind = "http"
    THEN err.status \in RetryOnStatus /\ a < MaxRetries - 1
    ELSE a < MaxRetries - 1

\* variant: HTTP 429 sleeps the current delay like every other failure
SleepDelay_Same(err, d) == d

\* _retry_with_backoff: the argument of time.sleep; on HTTP 429 the delay is
\* doubled (and capped) before the sleep
SleepDelay(err, d) ==
    IF err.kind = "http" /\ err.status = 429 THEN Min(d * 2, MaxDelay) ELSE d

\* variant: the delay is not doubled after a sleep
NextDelay_Constant(slept) == slept

\* _retry_with_backoff: delay = min(delay * 2, max_delay) after the sleep
NextDelay(slept) == Min(slept * 2, MaxDelay)

\* _retry_with_backoff: a bare `raise` re-raises the exception being handled,
\* the one of the current attempt
RaisedFromAttempt(errs, err) == err

----------------------------------------------------------------------------
(* core/enrichers.py: responses and their processing by the gatherers *)

\* One element of an Overpass response. wellformed is FALSE for an element
\* the loop body cannot read (not an object, or with tags that are no
\* object): reading it raises. name, brand and the five tag values are
\* NoStr when the tag is absent. dist abstracts the coordinates: None when
\* center/lat/lon give no latitude or no longitude, else Some(d) with d the
\* value _calculate_distance_m computes for them.
Feature(name, brand, shop, amenity, leisure, landuse, natural, dist) ==
    [ wellformed |-> TRUE, name |-> name, brand |-> brand, shop |-> shop,
      amenity |-> amenity, leisure |-> leisure, landuse |-> landuse,
      natural |-> natural, dist |-> dist ]

BadFeature ==
    [ wellformed |-> FALSE, name |-> NoStr, brand |-> NoStr, shop |-> NoStr,
      amenity |-> NoStr, leisure |-> NoStr, landuse |-> NoStr,
      natural |-> NoStr, dist |-> None ]

\* the features an amenities query can bring back in the model
AmenityFeatures ==
    { Feature("A", NoStr, "supermarket", NoStr, NoStr, NoStr, NoStr, Some(1)),
      Feature("A", NoStr, "supermarket", NoStr, NoStr, NoStr, NoStr, None),
      Feature("A", NoStr, NoStr, "pharmacy", NoStr, NoStr, NoStr, Some(2)),
      Feature("B", NoStr, "supermarket", NoStr, NoStr, NoStr, NoStr, Some(2)),
      Feature("B", NoStr, NoStr, "pharmacy", NoStr, NoStr, NoStr, Some(1)),
      Feature(NoStr, "A", "supermarket", NoStr, NoStr, NoStr, NoStr, Some(1)),
      Feature(NoStr, NoStr, "supermarket", NoStr, NoStr, NoStr, NoStr, Some(1)),
      Feature("B", NoStr, "convenience", NoStr, NoStr, NoStr, NoStr, Some(1)),
      BadFeature }

\* the features a nature query can bring back in the model
NatureFeatures ==
    { Feature("A", NoStr, NoStr, NoStr, "park", NoStr, NoStr, Some(1)),
      Feature("A", NoStr, NoStr, NoStr, "park", NoStr, NoStr, None),
      Feature("A", NoStr, NoStr, NoStr, "nature_reserve", NoStr, NoStr, Some(2)),
      Feature("B", NoStr, NoStr, NoStr, "park", NoStr, NoStr, Some(2)),
      Feature(NoStr, NoStr, NoStr, NoStr, "park", NoStr, NoStr, Some(1)),
      Feature("B", NoStr, NoStr, NoStr, "garden", NoStr, NoStr, Some(1)),
      Feature("A", NoStr, NoStr, NoStr, NoStr, "forest", NoStr, Some(2)),
      Feature("B", NoStr, NoStr, NoStr, NoStr, NoStr, "wood", Some(1)),
      BadFeature }

\* One incident of the crime feed; category and month are NoStr when the
\* key is absent; wellformed is FALSE for an incident that is no object.
Incident(category, month) ==
    [ wellformed |-> TRUE, category |-> category, month |-> month ]

BadIncident == [ wellformed |-> FALSE, category |-> NoStr, month |-> NoStr ]

\* the incidents the crime feed can bring back in the model
Incidents ==
    { Incident(c, m) :
        c \in {NoStr, "violent-crime", "burglary", "anti-social-behaviour"},
        m \in {NoStr, "2024-01"} }
    \cup { Incident("drugs", "2024-02"), BadIncident }

ElementsOf(k) ==
    CASE k = "amenities" -> AmenityFeatures
      [] k = "nature" -> NatureFeatures
      [] OTHER -> Incidents

SeqsUpTo(S, n) == UNION { [1..m -> S] : m \in 0..n }

\* A decoded response body. wellformed is FALSE for a body of the wrong
\* type (an Overpass body that is no object, a crime body that is no list);
\* an Overpass body without "elements" is the body with no element.
Payload(wf, elems) == [ received |-> TRUE, wellformed |-> wf, elements |-> elems ]

NoData == [ received |-> FALSE, wellformed |-> FALSE, elements |-> <<>> ]

Payloads(k) ==
    { Payload(TRUE, es) : es \in SeqsUpTo(ElementsOf(k), MaxElems) }
    \cup { Payload(FALSE, <<>>) }

\* sorted(items, key=distance_m): a stable insertion sort
RECURSIVE InsertByDist(_, _)
InsertByDist(sorted, item) ==
    IF sorted = <<>> THEN <<item>>
    ELSE IF item.distance_m < Head(sorted).distance_m THEN <<item>> \o sorted
    ELSE <<Head(sorted)>> \o InsertByDist(Tail(sorted), item)

RECURSIVE SortByDist(_)
SortByDist(items) ==
    IF items = <<>> THEN <<>>
    ELSE InsertByDist(SortByDist(SubSeq(items, 1, Len(items) - 1)), items[Len(items)])

\* variant: the list is returned whole, without the slice
Take_All(items, n) == items

\* items[:n]
Take(items, n) == SubSeq(items, 1, Min(n, Len(items)))

ParksCap == 10

ReservesCap == 5

\* the dict every gatherer starts from
ZeroShape(k) ==
    CASE k = "amenities" ->
           [ supermarkets |-> <<>>, pharmacies |-> <<>>, restaurants |-> <<>>,
             api_success |-> FALSE, error |-> NoStr ]
      [] k = "nature" ->
           [ parks |-> <<>>, parks_count |-> 0, nature_reserves |-> <<>>,
             countryside_access |-> FALSE, api_success |-> FALSE, error |-> NoStr ]
      [] OTHER ->
           [ total_crimes |-> 0, crimes_by_category |-> <<>>,
             crime_rate_per_1000 |-> None, month |-> NoStr, serious_crimes |-> 0,
             property_crimes |-> 0, antisocial_behaviour |-> 0,
             api_success |-> FALSE, error |-> NoStr ]

\* tags.get("name", tags.get("brand", "Unknown"))
AmenityName(el) ==
    IF el.name # NoStr THEN el.name
    ELSE IF el.brand # NoStr THEN el.brand
    ELSE "Unknown"

\* gather_amenities: the body of the loop over the elements, from element i
\* on. r is the amenities dict, seen is seen_names. The loop appends to the
\* dict itself; failed tells that an element raised, which ends the loop.
RECURSIVE AmenityLoop(_, _, _, _)
AmenityLoop(elems, i, r, seen) ==
    IF i > Len(elems) THEN [r |-> r, failed |-> FALSE]
    ELSE LET el == elems[i]
             name == AmenityName(el)
             item == [ name |-> name, distance_m |-> el.dist[1],
                       type |-> IF el.shop = "convenience" THEN "convenience" ELSE NoStr ]
             seen2 == IF name # "Unknown" THEN seen \cup {name} ELSE seen
         IN  CASE ~el.wellformed -> [r |-> r, failed |-> TRUE]
               [] name # "Unknown" /\ name \in seen -> AmenityLoop(elems, i + 1, r, seen)
               [] el.dist = None -> AmenityLoop(elems, i + 1, r, seen2)
               [] el.shop \in {"supermarket", "convenience"} ->
                    AmenityLoop(elems, i + 1,
                        [r EXCEPT !.supermarkets = Append(@, item)], seen2)
               [] el.amenity = "pharmacy" ->
                    AmenityLoop(elems, i + 1,
                        [r EXCEPT !.pharmacies = Append(@, item)], seen2)
               [] OTHER -> AmenityLoop(elems, i + 1, r, seen2)

\* gather_amenities: the try block after the response has arrived. The
\* exceptions it can raise are AttributeError/TypeError, caught by the
\* generic handler.
ProcessAmenities(r, payload) ==
    IF ~payload.wellformed THEN [r EXCEPT !.error = "Failed to gather amenities"]
    ELSE LET out == AmenityLoop(payload.elements, 1, r, {})
         IN  IF out.failed
             THEN [out.r EXCEPT !.error = "Failed to gather amenities"]
             ELSE [out.r EXCEPT !.supermarkets = SortByDist(@),
                                !.pharmacies = SortByDist(@),
                                !.restaurants = SortByDist(@),
                                !.api_success = TRUE]

\* tags.get("leisure") or tags.get("landuse") or tags.get("natural")
NatureType(el) ==
    IF el.leisure # NoStr THEN el.leisure
    ELSE IF el.landuse # NoStr THEN el.landuse
    ELSE el.natural

\* gather_nature_data: the body of the loop over the elements
RECURSIVE NatureLoop(_, _, _, _)
NatureLoop(elems, i, r, seen) ==
    IF i > Len(elems) THEN [r |-> r, failed |-> FALSE]
    ELSE LET el == elems[i]
             item == [ name |-> el.name, distance_m |-> el.dist[1],
                       type |-> NatureType(el) ]
         IN  CASE ~el.wellformed -> [r |-> r, failed |-> TRUE]
               [] el.name = NoStr \/ el.name \in seen -> NatureLoop(elems, i + 1, r, seen)
               [] el.dist = None -> NatureLoop(elems, i + 1, r, seen \cup {el.name})
               [] el.leisure \in {"park", "garden"} ->
                    NatureLoop(elems, i + 1,
                        [r EXCEPT !.parks = Append(@, item)], seen \cup {el.name})
               [] el.leisure = "nature_reserve" \/ el.landuse = "forest"
                    \/ el.natural = "wood" ->
                    NatureLoop(elems, i + 1,
                        [r EXCEPT !.nature_reserves = Append(@, item),
                                  !.countryside_access = TRUE], seen \cup {el.name})
               [] OTHER -> NatureLoop(elems, i + 1, r, seen \cup {el.name})

\* gather_nature_data: the try block after the response has arrived
ProcessNature(r, payload) ==
    IF ~payload.wellformed THEN [r EXCEPT !.error = "Failed to gather nature data"]
    ELSE LET out == NatureLoop(payload.elements, 1, r, {})
             parks == Take(SortByDist(out.r.parks), ParksCap)
         IN  IF out.failed
             THEN [out.r EXCEPT !.error = "Failed to gather nature data"]
             ELSE [out.r EXCEPT !.parks = parks,
                                !.nature_reserves = Take(SortByDist(@), ReservesCap),
                                !.parks_count = Len(parks),
                                !.api_success = TRUE]

SERIOUS_CATEGORIES ==
    { "violent-crime", "violence-and-sexual-offences", "robbery",
      "possession-of-weapons", "public-order" }

PROPERTY_CATEGORIES ==
    { "burglary", "theft-from-the-person", "vehicle-crime", "bicycle-theft",
      "shoplifting", "other-theft" }

\* crime.get("category", "other-crime")
CrimeCategory(c) == IF c.category # NoStr THEN c.category ELSE "other-crime"

\* gather_crime_data: the loop over the incidents; counts is category_counts,
\* month is crime_data["month"], which the loop assigns in the dict itself
RECURSIVE CrimeLoop(_, _, _, _)
CrimeLoop(crimes, i, counts, month) ==
    IF i > Len(crimes) THEN [counts |-> counts, month |-> month, failed |-> FALSE]
    ELSE LET c == crimes[i]
             cat == CrimeCategory(c)
             n == IF cat \in DOMAIN counts THEN counts[cat] ELSE 0
         IN  IF ~c.wellformed THEN [counts |-> counts, month |-> month, failed |-> TRUE]
             ELSE CrimeLoop(crimes, i + 1, DictSet(counts, cat, n + 1),
                            IF month = NoStr /\ c.month # NoStr THEN c.month ELSE month)

\* variant: the categories present are counted, not their incidents
SumOver_Count(counts, cats) == Cardinality(cats \cap DOMAIN counts)

\* sum(count for cat, count in category_counts.items() if cat in cats)
RECURSIVE SumOver(_, _)
SumOver(counts, cats) ==
    IF cats = {} THEN 0
    ELSE LET c == CHOOSE x \in cats : TRUE
         IN  (IF c \in DOMAIN counts THEN counts[c] ELSE 0) + SumOver(counts, cats \ {c})

\* gather_crime_data: the try block after the response has arrived
ProcessCrime(r, payload) ==
    IF ~payload.wellformed THEN [r EXCEPT !.error = "Failed to gather crime data"]
    ELSE LET out == CrimeLoop(payload.elements, 1, <<>>, r.month)
         IN  IF out.failed
             THEN [r EXCEPT !.month = out.month, !.error = "Failed to gather crime data"]
             ELSE [r EXCEPT !.month = out.month,
                            !.total_crimes = Len(payload.elements),
                            !.crimes_by_category = out.counts,
                            !.serious_crimes = SumOver(out.counts, SERIOUS_CATEGORIES),
                            !.property_crimes = SumOver(out.counts, PROPERTY_CATEGORIES),
                            !.antisocial_behaviour =
                                SumOver(out.counts, {"anti-social-behaviour"}),
                            !.api_success = TRUE]

Process(k, r, payload) ==
    CASE k = "amenities" -> ProcessAmenities(r, payload)
      [] k = "nature" -> ProcessNature(r, payload)
      [] OTHER -> ProcessCrime(r, payload)

----------------------------------------------------------------------------
(* core/enrichers.py: the gatherers as state machines, one step per request *)

\* the message each except clause of a gatherer stores in "error"
ErrorMessage(k, err) ==
    CASE err.kind = "timeout" ->
           IF k = "crime" THEN "Police API timeout" ELSE "API timeout after retries"
      [] err.kind = "http" ->
           IF k = "crime" THEN "Police API error (HTTP)" ELSE "API error (HTTP)"
      [] k = "amenities" -> "Failed to gather amenities"
      [] k = "nature" -> "Failed to gather nature data"
      [] OTHER -> "Failed to gather crime data"

\* variant: the except clauses without the final except Exception
GathererCatch_NoGeneric(k, r, err) ==
    IF err.kind \in {"timeout", "http"}
    THEN [result |-> [r EXCEPT !.error = ErrorMessage(k, err)], escaped |-> FALSE]
    ELSE [result |-> r, escaped |-> TRUE]

\* The except clauses of a gatherer around _retry_with_backoff:
\* TimeoutException, HTTPStatusError, then Exception, which catches the rest.
GathererCatch(k, r, err) ==
    [result |-> [r EXCEPT !.error = ErrorMessage(k, err)], escaped |-> FALSE]

InitGather ==
    /\ pc = "idle"
    /\ kind = "none"
    /\ attempt = 0
    /\ endpoint = 1
    /\ delay = InitialDelay
    /\ last_error = NoErr
    /\ sleeps = <<>>
    /\ requests = <<>>
    /\ attemptErrs = <<>>
    /\ data = NoData
    /\ result = <<>>
    /\ raisedErr = NoErr
    /\ escaped = FALSE

Request(ok) == [attempt |-> attempt, endpoint |-> endpoint, ok |-> ok]

\* gather_amenities / gather_nature_data / gather_crime_data is called: the
\* zero-value dict is built and _retry_with_backoff starts its first attempt
StartGather(k) ==
    /\ pc = "idle"
    /\ pc' = "fetch"
    /\ kind' = k
    /\ result' = ZeroShape(k)
    /\ attempt' = 0
    /\ endpoint' = 1
    /\ delay' = InitialDelay
    /\ UNCHANGED <<last_error, sleeps, requests, attemptErrs, data, raisedErr, escaped>>
    /\ UNCHANGED <<commuteVars, scoreVars, departVars, pipelineVars>>

\* The request to the current endpoint succeeds: _query_overpass (or
\* _fetch_crimes) returns the decoded body, _retry_with_backoff returns it,
\* and the gatherer processes it and returns.
RequestSucceeds(payload) ==
    /\ pc = "fetch"
    /\ requests' = Append(requests, Request(TRUE))
    /\ data' = payload
    /\ result' = Process(kind, result, payload)
    /\ pc' = "done"
    /\ UNCHANGED <<kind, attempt, endpoint, delay, last_error, sleeps, attemptErrs,
                   raisedErr, escaped>>
    /\ UNCHANGED <<commuteVars, scoreVars, departVars, pipelineVars>>

\* _query_overpass: the request to an endpoint raises while another endpoint
\* is left: the exception is kept in last_error and the loop continues
EndpointFails(f) ==
    /\ pc = "fetch"
    /\ MoreEndpoints(kind, endpoint)
    /\ requests' = Append(requests, Request(FALSE))
    /\ last_error' = Err(f, attempt, endpoint)
    /\ endpoint' = endpoint + 1
    /\ UNCHANGED <<pc, kind, attempt, delay, sleeps, attemptErrs, data, result,
                   raisedErr, escaped>>
    /\ UNCHANGED <<commuteVars, scoreVars, departVars, pipelineVars>>

\* The request to the last endpoint raises, so func() raises that exception
\* into _retry_with_backoff, which sleeps and goes to the next attempt. When
\* the loop has no attempt left after the sleep, line 98 raises last_error.
AttemptFailsRetry(f) ==
    LET err == Err(f, attempt, endpoint)
        slept == SleepDelay(err, delay)
        caught == GathererCatch(kind, result, err)
    IN  /\ pc = "fetch"
        /\ ~MoreEndpoints(kind, endpoint)
        /\ ShouldRetry(err, attempt)
        /\ requests' = Append(requests, Request(FALSE))
        /\ attemptErrs' = Append(attemptErrs, err)
        /\ last_error' = err
        /\ sleeps' = Append(sleeps, slept)
        /\ delay' = NextDelay(slept)
        /\ attempt' = attempt + 1
        /\ endpoint' = 1
        /\ IF attempt + 1 < MaxRetries
           THEN UNCHANGED <<pc, result, raisedErr, escaped>>
           ELSE /\ pc' = "done"
                /\ raisedErr' = err
                /\ result' = caught.result
                /\ escaped' = caught.escaped
        /\ UNCHANGED <<kind, data>>
        /\ UNCHANGED <<commuteVars, scoreVars, departVars, pipelineVars>>

\* The request to the last endpoint raises and _retry_with_backoff re-raises:
\* the status is not retryable, or this was the last attempt. The gatherer's
\* except clause stores the message and the gatherer returns.
AttemptFailsRaise(f) ==
    LET err == Err(f, attempt, endpoint)
        thrown == RaisedFromAttempt(attemptErrs, err)
        caught == GathererCatch(kind, result, thrown)
    IN  /\ pc = "fetch"
        /\ ~MoreEndpoints(kind, endpoint)
        /\ ~ShouldRetry(err, attempt)
        /\ requests' = Append(requests, Request(FALSE))
        /\ attemptErrs' = Append(attemptErrs, err)
        /\ last_error' = err
        /\ raisedErr' = thrown
        /\ result' = caught.result
        /\ escaped' = caught.escaped
        /\ pc' = "done"
        /\ UNCHANGED <<kind, attempt, endpoint, delay, sleeps, data>>
        /\ UNCHANGED <<commuteVars, scoreVars, departVars, pipelineVars>>

----------------------------------------------------------------------------
(* core/scorer.py *)
(* A Python number (int or float) is modelled as the exact fraction         *)
(* [num, den] in lowest terms, den > 0.                                     *)

Abs(x) == IF x < 0 THEN -x ELSE x

RECURSIVE GCD(_, _)
GCD(a, b) == IF b = 0 THEN a ELSE GCD(b, a % b)

Rat(n, d) ==
    LET g == GCD(Abs(n), Abs(d))
        s == IF d < 0 THEN -1 ELSE 1
    IN  [num |-> (s * n) \div g, den |-> (s * d) \div g]

RatInt(i) == [num |-> i, den |-> 1]

RatAdd(x, y) == Rat(x.num * y.den + y.num * x.den, x.den * y.den)

RatSub(x, y) == Rat(x.num * y.den - y.num * x.den, x.den * y.den)

RatMul(x, y) == Rat(x.num * y.num, x.den * y.den)

\* x / y, for y # 0
RatDiv(x, y) == Rat(x.num * y.den, x.den * y.num)

RatLeq(x, y) == x.num * y.den <= y.num * x.den

RatMax(x, y) == IF RatLeq(x, y) THEN y ELSE x

RatMin(x, y) == IF RatLeq(x, y) THEN x ELSE y

\* variant: the fraction is cut off, as int() does
Round_Floor(x) == x.num \div x.den

\* round(x): the nearest integer, the even one of the two when x lies halfway
Round(x) ==
    LET q == x.num \div x.den
        r == x.num % x.den
    IN  IF 2 * r < x.den THEN q
        ELSE IF 2 * r > x.den THEN q + 1
        ELSE IF q % 2 = 0 THEN q ELSE q + 1

\* d.get(key, default) for an optional entry
GetOr(opt, default) == IF opt = None THEN default ELSE opt[1]

DefaultPenaltyPerChange == 15

DefaultExcellentThreshold == 50

DefaultGoodThreshold == 100

DefaultAcceptableThreshold == 200

PlaceholderScore == 70

NeutralSafetyScore == 70

\* variant: the upper limit is tested before the 30-minute mark
CommuteBase_MaxFirst(ar, crit) ==
    LET max_minutes == crit.commute.max_minutes
        commute == GetOr(ar.commute_minutes, max_minutes)
    IN  IF commute >= max_minutes THEN RatInt(0)
        ELSE IF commute <= 30 THEN RatInt(100)
        ELSE RatSub(RatInt(100),
                    RatMul(RatDiv(RatInt(commute - 30), RatInt(max_minutes - 30)),
                           RatInt(100)))

\* scores["commute"] before the train-change penalty
CommuteBase(ar, crit) ==
    LET max_minutes == crit.commute.max_minutes
        commute == GetOr(ar.commute_minutes, max_minutes)
    IN  IF commute <= 30 THEN RatInt(100)
        ELSE IF commute >= max_minutes THEN RatInt(0)
        ELSE RatSub(RatInt(100),
                    RatMul(RatDiv(RatInt(commute - 30), RatInt(max_minutes - 30)),
                           RatInt(100)))

\* variant: the penalty is subtracted without the floor
ApplyPenalty_NoFloor(base, ar, crit) ==
    LET mainline_changes == GetOr(ar.mainline_changes, 0)
        penalty_per_change == GetOr(crit.commute.penalty_per_change,
                                    DefaultPenaltyPerChange)
    IN  IF mainline_changes > 0
        THEN RatSub(base, RatInt(mainline_changes * penalty_per_change))
        ELSE base

\* the train-change penalty
ApplyPenalty(base, ar, crit) ==
    LET mainline_changes == GetOr(ar.mainline_changes, 0)
        penalty_per_change == GetOr(crit.commute.penalty_per_change,
                                    DefaultPenaltyPerChange)
    IN  IF mainline_changes > 0
        THEN RatMax(RatInt(0),
                    RatSub(base, RatInt(mainline_changes * penalty_per_change)))
        ELSE base

CommuteScore(ar, crit) == ApplyPenalty(CommuteBase(ar, crit), ar, crit)

\* variant: the countryside bonus is added without the second cap
NatureScore_NoCap(nat) ==
    LET nature_score == Min(100, nat.parks_count * 15)
    IN  IF nat.countryside_access THEN nature_score + 30 ELSE nature_score

NatureScore(nat) ==
    LET nature_score == Min(100, nat.parks_count * 15)
    IN  IF nat.countryside_access THEN Min(100, nature_score + 30) ELSE nature_score

\* variant: no supermarket scores nothing
AmenitiesScore_ZeroFloor(am) ==
    LET supermarkets == Len(am.supermarkets)
    IN  IF supermarkets >= 3 THEN 100
        ELSE IF supermarkets >= 1 THEN 60 + (supermarkets - 1) * 20
        ELSE 0

AmenitiesScore(am) ==
    LET supermarkets == Len(am.supermarkets)
    IN  IF supermarkets >= 3 THEN 100
        ELSE IF supermarkets >= 1 THEN 60 + (supermarkets - 1) * 20
        ELSE 20

\* variant: any crime dict counts as crime data
ApiSuccess_AnyDict(cr) == cr # None

\* crime = crime or {}; crime.get("api_success")
ApiSuccess(cr) == cr # None /\ cr[1].api_success

\* the three thresholds, each with its default
Thresholds(crit) ==
    IF crit.safety = None
    THEN [ excellent |-> DefaultExcellentThreshold, good |-> DefaultGoodThreshold,
           acceptable |-> DefaultAcceptableThreshold ]
    ELSE crit.safety[1]

\* variant: the band above the acceptable threshold has no floor
CrimeScore_NoFloor(weighted_crimes, th) ==
    IF weighted_crimes <= th.excellent THEN RatInt(100)
    ELSE IF weighted_crimes <= th.good
    THEN RatSub(RatInt(100),
                RatMul(RatDiv(RatInt(weighted_crimes - th.excellent),
                              RatInt(th.good - th.excellent)), RatInt(20)))
    ELSE IF weighted_crimes <= th.acceptable
    THEN RatSub(RatInt(80),
                RatMul(RatDiv(RatInt(weighted_crimes - th.good),
                              RatInt(th.acceptable - th.good)), RatInt(30)))
    ELSE RatSub(RatInt(50),
                RatMul(RatDiv(RatInt(weighted_crimes - th.acceptable),
                              RatInt(th.acceptable)), RatInt(50)))

\* the four bands of the safety sub-score
CrimeScore(weighted_crimes, th) ==
    IF weighted_crimes <= th.excellent THEN RatInt(100)
    ELSE IF weighted_crimes <= th.good
    THEN RatSub(RatInt(100),
                RatMul(RatDiv(RatInt(weighted_crimes - th.excellent),
                              RatInt(th.good - th.excellent)), RatInt(20)))
    ELSE IF weighted_crimes <= th.acceptable
    THEN RatSub(RatInt(80),
                RatMul(RatDiv(RatInt(weighted_crimes - th.good),
                              RatInt(th.acceptable - th.good)), RatInt(30)))
    ELSE RatMax(RatInt(0),
                RatSub(RatInt(50),
                       RatMul(RatDiv(RatInt(weighted_crimes - th.acceptable),
                                     RatInt(th.acceptable)), RatInt(50))))

SafetyScore(cr, crit) ==
    IF ApiSuccess(cr)
    THEN CrimeScore(cr[1].total_crimes + cr[1].serious_crimes, Thresholds(crit))
    ELSE RatInt(NeutralSafetyScore)

\* the dict scores
SubScores(ar, am, nat, cr, crit) ==
    [ k \in {"commute", "nature", "amenities", "price", "general_vibe", "safety"} |->
        CASE k = "commute" -> CommuteScore(ar, crit)
          [] k = "nature" -> RatInt(NatureScore(nat))
          [] k = "amenities" -> RatInt(AmenitiesScore(am))
          [] k = "safety" -> SafetyScore(cr, crit)
          [] OTHER -> RatInt(PlaceholderScore) ]

\* the loop over weights.items(), on the keys still to visit
RECURSIVE WeightedTotal(_, _, _)
WeightedTotal(keys, weights, sc) ==
    IF keys = {} THEN RatInt(0)
    ELSE LET key == CHOOSE k \in keys : TRUE
             rest == WeightedTotal(keys \ {key}, weights, sc)
         IN  IF key \in DOMAIN sc
             THEN RatAdd(rest, RatMul(RatDiv(sc[key], RatInt(100)), RatInt(weights[key])))
             ELSE rest

\* score_area(area, amenities, nature, crime), criteria.yaml being criteria
ScoreArea ==
    /\ scorePc = "called"
    /\ LET sc == SubScores(area, amenities, nature, crime, criteria)
           t == WeightedTotal(DOMAIN criteria.scoring, criteria.scoring, sc)
       IN  /\ scores' = sc
           /\ total' = t
           /\ score' = Some(Round(t))
    /\ scorePc' = "done"
    /\ UNCHANGED <<area, amenities, nature, crime, criteria>>
    /\ UNCHANGED <<commuteVars, gatherVars, departVars, pipelineVars>>

----------------------------------------------------------------------------
(* core/stations.py and the exclusion filter of find_commutable_areas.py *)
(* A string is the sequence of its characters. The coordinates of a        *)
(* station are modelled by the place they point at; the two haversine       *)
(* distances of a place are tabulated in metres, as the code computes them. *)

\* a string literal as the sequence of its characters
Chars(s) == [i \in 1..Len(s) |-> SubSeq(s, i, i)]

\* haversine_distance(51.5308, -0.1238, lat, lng) of is_london_zone_1_4
KingsCrossMetres ==
    ("St Albans City" :> 28136)
        @@ ("Hitchin" :> 47192)
        @@ ("Stevenage" :> 41655)
        @@ ("Welwyn Garden City" :> 30584)
        @@ ("Hatfield" :> 26648)
        @@ ("Potters Bar" :> 19007)
        @@ ("Luton" :> 43915)
        @@ ("Bedford" :> 71611)
        @@ ("Cambridge" :> 75929)
        @@ ("Peterborough" :> 116422)
        @@ ("Alexandra Palace" :> 7511)
        @@ ("Bow Brickhill" :> 65745)
        @@ ("York" :> 277658)
        @@ ("St Albans Abbey" :> 28176)

\* haversine_distance(LONDON_LAT, LONDON_LNG, lat, lng) of StationDatabase
LondonMetres ==
    ("St Albans City" :> 30293)
        @@ ("Hitchin" :> 49694)
        @@ ("Stevenage" :> 44200)
        @@ ("Welwyn Garden City" :> 33103)
        @@ ("Hatfield" :> 29124)
        @@ ("Potters Bar" :> 21512)
        @@ ("Luton" :> 46129)
        @@ ("Bedford" :> 73973)
        @@ ("Cambridge" :> 78524)
        @@ ("Peterborough" :> 118998)
        @@ ("Alexandra Palace" :> 10123)
        @@ ("Bow Brickhill" :> 67693)
        @@ ("York" :> 280129)
        @@ ("St Albans Abbey" :> 30270)

\* a station dict; town is the empty sequence for None and for ""
Station(name, town, place) ==
    [ name |-> Chars(name), town |-> Chars(town), place |-> place ]

\* _use_fallback_stations: the hardcoded list
FallbackStations ==
    << Station("St Albans City", "St Albans", "St Albans City"),
       Station("Hitchin", "Hitchin", "Hitchin"),
       Station("Stevenage", "Stevenage", "Stevenage"),
       Station("Welwyn Garden City", "Welwyn Garden City", "Welwyn Garden City"),
       Station("Hatfield", "Hatfield", "Hatfield"),
       Station("Potters Bar", "Potters Bar", "Potters Bar"),
       Station("Luton", "Luton", "Luton"),
       Station("Bedford", "Bedford", "Bedford"),
       Station("Cambridge", "Cambridge", "Cambridge"),
       Station("Peterborough", "Peterborough", "Peterborough") >>

\* s.find(sub) >= 0
Contains(s, sub) ==
    \E i \in 1..(Len(s) - Len(sub) + 1) :
        \A j \in 1..Len(sub) : s[i + j - 1] = sub[j]

\* s.replace(old, ""), for a non-empty old
RECURSIVE Remove(_, _)
Remove(s, old) ==
    IF Len(s) < Len(old) THEN s
    ELSE IF SubSeq(s, 1, Len(old)) = old
         THEN Remove(SubSeq(s, Len(old) + 1, Len(s)), old)
         ELSE <<s[1]>> \o Remove(Tail(s), old)

london_keywords ==
    << "london ", "kings cross", "king's cross", "st pancras", "euston",
       "paddington", "liverpool street", "fenchurch", "cannon street",
       "waterloo", "victoria", "charing cross", "blackfriars", "moorgate",
       "marylebone", "old street", "angel", "bank", "monument", "tower",
       "aldgate", "shoreditch", "whitechapel", "stratford", "west ham",
       "canning town", "canary wharf", "greenwich", "lewisham", "peckham",
       "brixton", "clapham", "battersea", "vauxhall", "elephant", "borough",
       "southwark", "bermondsey", "finsbury park", "highbury", "islington",
       "hackney", "dalston", "bethnal green", "mile end", "bow",
       "tottenham hale", "seven sisters", "camden", "kentish town",
       "hampstead", "kilburn", "willesden", "cricklewood", "west hampstead",
       "finchley", "barnet", "edgware", "harrow", "wembley", "ealing",
       "acton", "shepherd", "hammersmith", "fulham", "putney", "wandsworth",
       "wimbledon", "tooting", "balham", "streatham", "tulse hill",
       "herne hill", "denmark hill", "penge", "crystal palace", "sydenham",
       "forest hill", "catford", "ladywell", "brockley", "new cross",
       "deptford", "surrey quays", "canada water", "rotherhithe", "wapping",
       "shadwell", "limehouse", "poplar", "drayton park", "essex road",
       "hornsey", "crouch hill", "harringay" >>

\* the keywords as sequences of characters
KeywordChars == [k \in 1..Len(london_keywords) |-> Chars(london_keywords[k])]

MinDistanceKm == 15

\* variant: the name is matched as it is written
IsLondonZone14_NoLower(name, station, place) ==
    \/ \E k \in 1..Len(london_keywords) :
          \/ Contains(name, KeywordChars[k])
          \/ Contains(station, KeywordChars[k])
    \/ KingsCrossMetres[place] < MinDistanceKm * 1000

\* is_london_zone_1_4(name, station, lat, lng)
IsLondonZone14(name, station, place) ==
    LET name_lower == Lower(name)
        station_lower == Lower(station)
    IN  \/ \E k \in 1..Len(london_keywords) :
              \/ Contains(name_lower, KeywordChars[k])
              \/ Contains(station_lower, KeywordChars[k])
        \/ KingsCrossMetres[place] < MinDistanceKm * 1000

----------------------------------------------------------------------------
(* Specifications *)

\* score_area not called
ScoreIdle ==
    /\ area = <<>>
    /\ amenities = <<>>
    /\ nature = <<>>
    /\ crime = None
    /\ criteria = <<>>
    /\ scores = <<>>
    /\ total = <<>>
    /\ score = None
    /\ scorePc = "idle"

\* no routing query being built
DepartIdle ==
    /\ now_weekday = 0
    /\ now_hour = 0
    /\ departure = <<>>
    /\ departPc = "idle"

\* no StationDatabase built, no snapshot file
StationsIdle ==
    /\ stationsFile = None
    /\ stations = <<>>
    /\ dbPc = "none"
    /\ nearby = <<>>

\* no discovery run
DiscoveryIdle ==
    /\ discArgs = <<>>
    /\ discPc = "idle"
    /\ candidates = <<>>
    /\ discIdx = 1
    /\ commutable = <<>>

\* no areas.yaml, no area cache file, nothing sent
AreasIdle ==
    /\ areasFile = None
    /\ areaCaches = <<>>
    /\ notified = {}
    /\ areaHistory = [listed |-> {}, explored |-> {}]

\* no exploration run
RunAtRest ==
    /\ runPc = "idle"
    /\ runArgs = <<>>
    /\ areas_data = <<>>
    /\ runArea = <<>>
    /\ cache_data = <<>>
    /\ gathered = <<>>
    /\ runCriteria = None
    /\ runsDone = 0

RunIdle == RunAtRest /\ initialAreas = <<>>

PipelineIdle == StationsIdle /\ DiscoveryIdle /\ AreasIdle /\ RunIdle

\* the resolver at rest, for the behaviours of the gatherers
CommuteIdle ==
    /\ cacheFile = EmptyCache
    /\ cache = LoadCache(cacheFile)
    /\ traveltime_app_id = NoStr
    /\ traveltime_api_key = NoStr
    /\ google_api_key = NoStr
    /\ lastOp = "none"
    /\ lastGet = NoGet
    /\ writes = <<>>

NextCommute ==
    \/ \E s \in StationNames, m \in Minutes : CacheTime(s, m)
    \/ \E s \in StationNames, a \in RespA, b \in RespB : GetTrainTimeToKx(s, a, b)

\* CommuteChecker: any sequence of cache_time and get_train_time_to_kx calls
InitSpecCommute == InitCommute /\ InitGather /\ ScoreIdle /\ DepartIdle /\ PipelineIdle

SpecCommute == InitSpecCommute /\ [][NextCommute]_vars

NextGather ==
    \/ \E k \in GathererKinds : StartGather(k)
    \/ pc = "fetch" /\ \E p \in Payloads(kind) : RequestSucceeds(p)
    \/ pc = "fetch" /\ \E f \in Failures : EndpointFails(f)
    \/ pc = "fetch" /\ \E f \in Failures : AttemptFailsRetry(f)
    \/ pc = "fetch" /\ \E f \in Failures : AttemptFailsRaise(f)

\* one call of a gatherer, against any behaviour of the remote service
InitSpecGather == CommuteIdle /\ InitGather /\ ScoreIdle /\ DepartIdle /\ PipelineIdle

SpecGather == InitSpecGather /\ [][NextGather]_vars

----------------------------------------------------------------------------
(* Properties of the travel-time resolver, under SpecCommute *)

\* the two cases of each letter of the alphabet of StationNames
CasePairs == { {"e", "E"}, {"l", "L"}, {"y", "Y"}, {"a", "A"}, {"r", "R"} }

SameLetter(c, d) == c = d \/ {c, d} \in CasePairs

EqualIgnoringCase(s, t) ==
    Len(s) = Len(t) /\ \A i \in 1..Len(s) : SameLetter(s[i], t[i])

\* the cache_time calls made so far for a name equal to s ignoring case
WritesFor(s) == { i \in 1..Len(writes) : EqualIgnoringCase(writes[i].name, s) }

LastWriteFor(s) ==
    writes[CHOOSE i \in WritesFor(s) : \A j \in WritesFor(s) : j <= i]

AConfigured == Truthy(traveltime_app_id) /\ Truthy(traveltime_api_key)

BConfigured == Truthy(google_api_key)

Called(p) == \E i \in 1..Len(lastGet.calls) : lastGet.calls[i] = p

\* C1: once cache_time(s, m) has been called, get_train_time_to_kx(s') for
\* every s' equal to s ignoring case returns the m cached last for that
\* name and calls no provider, whatever the configuration and the providers.
C1_CachedValueReturned ==
    (lastOp = "get" /\ WritesFor(lastGet.name) # {}) =>
        /\ lastGet.ret = Some(LastWriteFor(lastGet.name).minutes)
        /\ lastGet.calls = <<>>
        /\ ~lastGet.escaped

\* a get for a name cached under another spelling, both providers configured
C1_Witness ==
    /\ lastOp = "get"
    /\ AConfigured /\ BConfigured
    /\ WritesFor(lastGet.name) # {}
    /\ LastWriteFor(lastGet.name).name # lastGet.name
    /\ lastGet.ret = Some(0)

\* C2: on a cache miss Provider A is queried first when it is configured;
\* Provider B is queried only when A is unconfigured or gave no result; the
\* call returns None exactly when every configured provider was queried and
\* gave None (no result, or a failure); no exception leaves the call.
C2_ProviderFallback ==
    (lastOp = "get" /\ lastGet.miss) =>
        /\ ~lastGet.escaped
        /\ lastGet.calls \in { <<>>, <<"A">>, <<"B">>, <<"A", "B">> }
        /\ Called("A") <=> AConfigured
        /\ Called("B") => (~AConfigured \/ lastGet.qA = None)
        /\ (lastGet.ret = None) <=>
              /\ AConfigured => (Called("A") /\ lastGet.qA = None)
              /\ BConfigured => (Called("B") /\ lastGet.qB = None)

\* a miss on which Provider A gave nothing and Provider B gave the value
C2_Witness ==
    /\ lastOp = "get"
    /\ lastGet.miss
    /\ lastGet.calls = <<"A", "B">>
    /\ lastGet.ret = Some(35)

\* C3: a step of get_train_time_to_kx leaves the in-memory cache and the
\* cache file as they were; every step that changes either is a cache_time.
C3_GetLeavesCacheUnchanged ==
    [][ /\ lastOp' = "get" => (cache' = cache /\ cacheFile' = cacheFile)
        /\ (cache' # cache \/ cacheFile' # cacheFile) => lastOp' = "cache_time" ]_vars

\* a get that returned a provider's value for a name that is still uncached
C3_Witness ==
    /\ lastOp = "get"
    /\ lastGet.miss
    /\ lastGet.ret # None
    /\ Lower(lastGet.name) \notin DOMAIN cache
    /\ Lower(lastGet.name) \notin DOMAIN cacheFile

----------------------------------------------------------------------------
(* Properties of the gatherers and of the retry policy, under SpecGather *)

AmenityFields == {"supermarkets", "pharmacies", "restaurants", "api_success", "error"}

NatureFields ==
    {"parks", "parks_count", "nature_reserves", "countryside_access",
     "api_success", "error"}

CrimeFields ==
    {"total_crimes", "crimes_by_category", "crime_rate_per_1000", "month",
     "serious_crimes", "property_crimes", "antisocial_behaviour",
     "api_success", "error"}

FieldsOf(k) ==
    CASE k = "amenities" -> AmenityFields
      [] k = "nature" -> NatureFields
      [] OTHER -> CrimeFields

\* _retry_with_backoff returned a response
Succeeded == pc = "done" /\ data.received

Statuses(errs) == [i \in 1..Len(errs) |-> errs[i].status]

\* the number of times _retry_with_backoff has called func()
Invocations == Cardinality({ requests[i].attempt : i \in 1..Len(requests) })

\* C4: no behaviour of the remote service, at any attempt, makes a gatherer
\* raise; the dict returned has exactly the fields of its shape, and
\* api_success is true exactly when error is None.
C4_GathererNeverRaises ==
    /\ ~escaped
    /\ pc = "done" =>
          /\ DOMAIN result = FieldsOf(kind)
          /\ result.api_success <=> (result.error = NoStr)

\* the third attempt ended with an exception that is neither a timeout nor
\* an HTTP status error
C4_Witness ==
    /\ pc = "done"
    /\ raisedErr.kind \in {"connect", "other"}
    /\ raisedErr.attempt = MaxRetries - 1
    /\ ~result.api_success

\* C5: a result with api_success = false is the zero-value shape: empty
\* lists, zero counts, countryside_access false, month None.
C5_FailureIsZeroShape ==
    (pc = "done" /\ ~result.api_success) =>
        [result EXCEPT !.error = NoStr] = ZeroShape(kind)

\* C6: two HTTP 503 failures and a success on the third attempt give the
\* sleeps 2 s, 4 s and nothing after the success; k failures other than 429
\* followed by a success give exactly the k sleeps 2, 4, ...
C6_BackoffSchedule ==
    /\ (Succeeded /\ Statuses(attemptErrs) = <<503, 503>>) =>
          /\ sleeps = <<2, 4>>
          /\ requests[Len(requests)].attempt = 2
          /\ requests[Len(requests)].ok
    /\ (Succeeded /\ \A i \in 1..Len(attemptErrs) : attemptErrs[i].status # 429) =>
          sleeps = [i \in 1..Len(attemptErrs) |-> 2 ^ i]

\* 503 twice, then the response
C6_Witness ==
    /\ Succeeded
    /\ Statuses(attemptErrs) = <<503, 503>>
    /\ result.api_success

\* C7: func() is called at most 3 times; there are at most 2 sleeps, none
\* longer than 30 s and none after the last attempt; when the three attempts
\* fail the exception raised is the one of the third attempt, and the
\* gatherer returns a failure result.
C7_RetryBounds ==
    /\ Invocations <= 3
    /\ Len(sleeps) <= 2
    /\ \A i \in 1..Len(sleeps) : sleeps[i] <= 30
    /\ pc = "done" => Len(sleeps) = Invocations - 1
    /\ (pc = "done" /\ Len(attemptErrs) = 3) =>
          /\ raisedErr = attemptErrs[3]
          /\ raisedErr.attempt = 2
          /\ ~result.api_success
          /\ result.error # NoStr
          /\ ~escaped

\* three failed attempts, two of them rate-limited
C7_Witness ==
    /\ pc = "done"
    /\ Len(attemptErrs) = 3
    /\ sleeps = <<4, 16>>

C9_EndpointFallback ==
    kind \in {"amenities", "nature"} =>
        /\ Len(requests) <= 6
        /\ \A i \in 1..Len(requests) :
              LET r == requests[i]
              IN  /\ r.endpoint \in {1, 2}
                  /\ r.endpoint = 1 =>
                        \/ i = 1 /\ r.attempt = 0
                        \/ /\ i > 1
                           /\ requests[i - 1] =
                                [attempt |-> r.attempt - 1, endpoint |-> 2, ok |-> FALSE]
                  /\ r.endpoint = 2 =>
                        /\ i > 1
                        /\ requests[i - 1] =
                             [attempt |-> r.attempt, endpoint |-> 1, ok |-> FALSE]
                  /\ r.ok => (i = Len(requests) /\ pc = "done")
        /\ Len(attemptErrs) =
              Cardinality({ i \in 1..Len(requests) :
                              requests[i].endpoint = 2 /\ ~requests[i].ok })
        /\ \A j \in 1..Len(attemptErrs) :
              attemptErrs[j].endpoint = 2 /\ attemptErrs[j].attempt = j - 1

\* both endpoints failed in each of the three attempts
C9_Witness ==
    /\ kind \in {"amenities", "nature"}
    /\ pc = "done"
    /\ Len(requests) = 6

\* the result list a feature of the response belongs to (NoStr: none)
ListOfFeature(k, el) ==
    CASE ~el.wellformed -> NoStr
      [] k = "amenities" /\ el.shop \in {"supermarket", "convenience"} -> "supermarkets"
      [] k = "amenities" /\ el.amenity = "pharmacy" -> "pharmacies"
      [] k = "nature" /\ el.leisure \in {"park", "garden"} -> "parks"
      [] k = "nature" /\ (el.leisure = "nature_reserve" \/ el.landuse = "forest"
                          \/ el.natural = "wood") -> "nature_reserves"
      [] OTHER -> NoStr

NameOfFeature(k, el) == IF k = "amenities" THEN AmenityName(el) ELSE el.name

FeaturesNamed(k, list, n) ==
    { i \in 1..Len(data.elements) :
        /\ ListOfFeature(k, data.elements[i]) = list
        /\ NameOfFeature(k, data.elements[i]) = n }

EntriesNamed(list, n) ==
    { i \in 1..Len(result[list]) : result[list][i].name = n }

\* C10: when two or more features of one category of a successful response
\* share a name other than "Unknown", the result list of that category has
\* exactly one entry with that name.
C10_OneEntryPerName ==
    (pc = "done" /\ kind \in {"amenities", "nature"} /\ result.api_success) =>
        \A list \in {"supermarkets", "pharmacies", "parks", "nature_reserves"} :
            \A n \in {"A", "B"} :
                (list \in DOMAIN result /\ Cardinality(FeaturesNamed(kind, list, n)) >= 2)
                    => Cardinality(EntriesNamed(list, n)) = 1

----------------------------------------------------------------------------
(* core/scorer.py: the arguments and configurations score_area is run on *)

Area(commute_minutes, mainline_changes) ==
    [ commute_minutes |-> commute_minutes, mainline_changes |-> mainline_changes ]

\* criteria.yaml: scoring, commute.max_minutes,
\* commute.train_change_penalty.penalty_per_change (optional) and safety
\* (optional, the three thresholds)
Criteria(weights, max_minutes, penalty_per_change, safety) ==
    [ scoring |-> weights,
      commute |-> [ max_minutes |-> max_minutes,
                    penalty_per_change |-> penalty_per_change ],
      safety |-> safety ]

\* a successful amenities dict with n supermarkets
AmenitiesResult(n) ==
    [ ZeroShape("amenities") EXCEPT
        !.supermarkets = [ i \in 1..n |-> [ name |-> "S", distance_m |-> i,
                                            type |-> NoStr ] ],
        !.api_success = TRUE ]

NatureResult(parks_count, countryside_access) ==
    [ ZeroShape("nature") EXCEPT
        !.parks_count = parks_count,
        !.countryside_access = countryside_access,
        !.api_success = TRUE ]

CrimeResult(api_success, total_crimes, serious_crimes) ==
    [ ZeroShape("crime") EXCEPT
        !.total_crimes = total_crimes,
        !.serious_crimes = serious_crimes,
        !.api_success = api_success ]

SafetyConfig(excellent, good, acceptable) ==
    [ excellent |-> excellent, good |-> good, acceptable |-> acceptable ]

\* the weights the comments of score_area give as defaults
ExampleWeights ==
    ("commute" :> 35) @@ ("nature" :> 20) @@ ("amenities" :> 10)
        @@ ("price" :> 25) @@ ("general_vibe" :> 5) @@ ("safety" :> 15)

\* score_area has been called with these arguments, under this configuration
Called_score_area(ar, am, nat, cr, crit) ==
    /\ area = ar
    /\ amenities = am
    /\ nature = nat
    /\ crime = cr
    /\ criteria = crit
    /\ scores = <<>>
    /\ total = <<>>
    /\ score = None
    /\ scorePc = "called"

NextScore == ScoreArea

\* commute sub-score: commute times around 30 and max_minutes, with and
\* without mainline changes
CommuteMinutesValues == {0, 20, 25, 30, 31, 40, 45, 59, 60, 61, 90}

MaxMinutesValues == {20, 30, 31, 60, 90}

MainlineChangesValues == {0, 1, 2, 7}

PenaltyValues == {0, 15, 100}

InitSpecScoreCommute ==
    /\ CommuteIdle /\ InitGather /\ DepartIdle /\ PipelineIdle
    /\ \E c \in {None} \cup { Some(v) : v \in CommuteMinutesValues },
          ch \in {None} \cup { Some(v) : v \in MainlineChangesValues },
          mx \in MaxMinutesValues,
          pen \in {None} \cup { Some(v) : v \in PenaltyValues } :
            Called_score_area(Area(c, ch), AmenitiesResult(3), NatureResult(3, TRUE),
                              None, Criteria(ExampleWeights, mx, pen, None))

SpecScoreCommute == InitSpecScoreCommute /\ [][NextScore]_vars

\* safety sub-score: crime counts around the thresholds
TotalCrimesValues == (0..8) \cup {50, 75, 100, 150, 200, 300, 399, 400, 450}

SeriousCrimesValues == {0, 1, 3, 50}

SafetyConfigs ==
    { None, Some(SafetyConfig(1, 2, 3)), Some(SafetyConfig(2, 4, 7)),
      Some(SafetyConfig(1, 5, 6)), Some(SafetyConfig(3, 4, 8)) }

CrimeResults ==
    { CrimeResult(ok, t, s) :
        ok \in BOOLEAN,
        <<t, s>> \in { ts \in TotalCrimesValues \X SeriousCrimesValues : ts[2] <= ts[1] } }

InitSpecScoreSafety ==
    /\ CommuteIdle /\ InitGather /\ DepartIdle /\ PipelineIdle
    /\ \E cr \in {None} \cup { Some(r) : r \in CrimeResults }, th \in SafetyConfigs :
            Called_score_area(Area(Some(45), None), AmenitiesResult(3),
                              NatureResult(3, TRUE), cr,
                              Criteria(ExampleWeights, 60, None, th))

SpecScoreSafety == InitSpecScoreSafety /\ [][NextScore]_vars

\* the whole score
WeightConfigs ==
    { ExampleWeights,
      <<>>,
      ("commute" :> 50) @@ ("safety" :> 50),
      ("schools" :> 10) @@ ("nature" :> 100),
      ("commute" :> 0) @@ ("nature" :> 0) @@ ("price" :> 1),
      ("price" :> 15),
      ("general_vibe" :> 25),
      ("commute" :> 200) @@ ("price" :> 100) }

ParksCountValues == 0..10

SupermarketCounts == 0..4

InitSpecScore ==
    /\ CommuteIdle /\ InitGather /\ DepartIdle /\ PipelineIdle
    /\ \E c \in {None, Some(30), Some(45), Some(60)},
          ch \in {None, Some(1)},
          n \in SupermarketCounts,
          p \in ParksCountValues,
          co \in BOOLEAN,
          cr \in { None, Some(CrimeResult(FALSE, 0, 0)), Some(CrimeResult(TRUE, 0, 0)),
                   Some(CrimeResult(TRUE, 300, 0)) },
          w \in WeightConfigs :
            Called_score_area(Area(c, ch), AmenitiesResult(n), NatureResult(p, co),
                              cr, Criteria(w, 60, None, None))

SpecScore == InitSpecScore /\ [][NextScore]_vars

----------------------------------------------------------------------------
(* core/commute.py: the departure time of a routing query *)
(* A time is modelled by its day, counted from the day of the clock        *)
(* reading, the weekday of that day (0 is Monday) and its hour.            *)

Weekdays == 0..6

Hours == 0..23

\* target = now.replace(hour=8, ...) + timedelta(days=...)
TargetTime(weekday, hour) ==
    LET days_ahead == IF weekday < 5 THEN 0 ELSE (7 - weekday) % 7
        days == IF days_ahead > 0 THEN days_ahead
                ELSE IF hour >= 8 THEN 1 ELSE 0
    IN  [ days |-> days, weekday |-> (weekday + days) % 7, hour |-> 8 ]

\* _next_weekday_8am: the target as an ISO string with the suffix Z
NextWeekday8am(weekday, hour) ==
    [ format |-> "iso-Z", time |-> TargetTime(weekday, hour) ]

\* _next_weekday_8am_timestamp: the target as a Unix timestamp
NextWeekday8amTimestamp(weekday, hour) ==
    [ format |-> "unix", time |-> TargetTime(weekday, hour) ]

\* the clock is read and the departure times of the two queries are computed
ComputeDeparture(weekday, hour) ==
    /\ now_weekday' = weekday
    /\ now_hour' = hour
    /\ departure' = [ A |-> NextWeekday8am(weekday, hour),
                      B |-> NextWeekday8amTimestamp(weekday, hour) ]
    /\ departPc' = "done"
    /\ UNCHANGED <<commuteVars, gatherVars, scoreVars, pipelineVars>>

NextDeparture == \E weekday \in Weekdays, hour \in Hours : ComputeDeparture(weekday, hour)

InitSpecDeparture == CommuteIdle /\ InitGather /\ ScoreIdle /\ DepartIdle /\ PipelineIdle

\* routing queries built at any day of the week and hour
SpecDeparture == InitSpecDeparture /\ [][NextDeparture]_vars

----------------------------------------------------------------------------
(* gather_nature_data on responses longer than the two caps *)

Park(name, d) == Feature(name, NoStr, NoStr, NoStr, "park", NoStr, NoStr, Some(d))

Reserve(name, d) ==
    Feature(name, NoStr, NoStr, NoStr, "nature_reserve", NoStr, NoStr, Some(d))

\* nine parks, four reserves and an unnamed park, in the order of the response
ManyFeatures ==
    << Park("P5", 50), Reserve("R2", 25), Park("P1", 10), Park(NoStr, 12),
       Park("P9", 90),
       Park("P3", 30), Reserve("R4", 45), Park("P7", 70), Park("P2", 20),
       Reserve("R1", 15), Park("P8", 80), Park("P4", 40), Reserve("R3", 35),
       Park("P6", 60) >>

\* the features that come before or after them
ExtraFeatures ==
    { Park("X", 5),
      Park("Z", 500),
      Park("P1", 1),
      Park(NoStr, 2),
      Feature("W", NoStr, NoStr, NoStr, "park", NoStr, NoStr, None),
      Feature("G", NoStr, NoStr, NoStr, "garden", NoStr, NoStr, Some(55)),
      Reserve("S", 3),
      Feature("F", NoStr, NoStr, NoStr, NoStr, "forest", NoStr, Some(700)) }

LongNaturePayloads ==
    { Payload(TRUE, pre \o ManyFeatures \o post) :
        <<pre, post>> \in { pp \in SeqsUpTo(ExtraFeatures, MaxElems)
                                  \X SeqsUpTo(ExtraFeatures, MaxElems) :
                              Len(pp[1]) + Len(pp[2]) <= MaxElems } }

NextNatureCaps ==
    \/ StartGather("nature")
    \/ pc = "fetch" /\ \E p \in LongNaturePayloads : RequestSucceeds(p)

\* one call of gather_nature_data answered at once with a long response
InitSpecNatureCaps == CommuteIdle /\ InitGather /\ ScoreIdle /\ DepartIdle /\ PipelineIdle

SpecNatureCaps == InitSpecNatureCaps /\ [][NextNatureCaps]_vars

----------------------------------------------------------------------------
(* Properties of gather_nature_data and gather_crime_data *)

\* the positions of the response whose feature the loop accepts: named, the
\* first of its name, with coordinates
AcceptedAt(elems) ==
    { i \in 1..Len(elems) :
        /\ elems[i].name # NoStr
        /\ \A j \in 1..(i - 1) : elems[j].name # elems[i].name
        /\ elems[i].dist # None }

AcceptedParksAt(elems) ==
    { i \in AcceptedAt(elems) : elems[i].leisure \in {"park", "garden"} }

Ascending(items) ==
    \A i \in 1..(Len(items) - 1) : items[i].distance_m <= items[i + 1].distance_m

\* C11: in a successful result of gather_nature_data no entry is unnamed;
\* parks is in ascending distance, has at most 10 entries, each of them an
\* accepted park or garden of the response, and no accepted park left out is
\* nearer than one that is in; nature_reserves is in ascending distance and
\* has at most 5 entries; parks_count is the length of parks.
C11_NatureCaps ==
    (pc = "done" /\ kind = "nature" /\ result.api_success) =>
        LET accepted == AcceptedParksAt(data.elements)
            kept == { i \in accepted :
                        \E k \in 1..Len(result.parks) :
                            /\ result.parks[k].name = data.elements[i].name
                            /\ result.parks[k].distance_m = data.elements[i].dist[1] }
        IN  /\ \A k \in 1..Len(result.parks) : result.parks[k].name # NoStr
            /\ \A k \in 1..Len(result.nature_reserves) :
                    result.nature_reserves[k].name # NoStr
            /\ Ascending(result.parks)
            /\ Len(result.parks) <= 10
            /\ Len(result.parks) = Cardinality(kept)
            /\ Cardinality(kept) = Min(10, Cardinality(accepted))
            /\ \A i \in accepted \ kept : \A j \in kept :
                    data.elements[j].dist[1] <= data.elements[i].dist[1]
            /\ Ascending(result.nature_reserves)
            /\ Len(result.nature_reserves) <= 5
            /\ result.parks_count = Len(result.parks)

\* a successful call whose response held more accepted parks than the cap,
\* an unnamed park among its features
C11_Witness ==
    /\ pc = "done" /\ kind = "nature" /\ result.api_success
    /\ Cardinality(AcceptedParksAt(data.elements)) > 10
    /\ Len(result.parks) = 10
    /\ \E i \in 1..Len(data.elements) : data.elements[i].name = NoStr

\* the incidents of the response whose category is in cats
IncidentsIn(elems, cats) ==
    Cardinality({ i \in 1..Len(elems) : CrimeCategory(elems[i]) \in cats })

\* C12: in a successful result of gather_crime_data total_crimes is the
\* number of incidents of the response and the sum of crimes_by_category;
\* serious_crimes, property_crimes and antisocial_behaviour count the
\* incidents of three pairwise disjoint category sets, so that their sum is
\* at most total_crimes.
C12_CrimeTotals ==
    (pc = "done" /\ kind = "crime" /\ result.api_success) =>
        LET by == result.crimes_by_category
            antisocial == {"anti-social-behaviour"}
        IN  /\ result.total_crimes = Len(data.elements)
            /\ result.total_crimes = SumOver(by, DOMAIN by)
            /\ \A c \in DOMAIN by : by[c] = IncidentsIn(data.elements, {c})
            /\ result.serious_crimes = IncidentsIn(data.elements, SERIOUS_CATEGORIES)
            /\ result.property_crimes = IncidentsIn(data.elements, PROPERTY_CATEGORIES)
            /\ result.antisocial_behaviour = IncidentsIn(data.elements, antisocial)
            /\ SERIOUS_CATEGORIES \cap PROPERTY_CATEGORIES = {}
            /\ SERIOUS_CATEGORIES \cap antisocial = {}
            /\ PROPERTY_CATEGORIES \cap antisocial = {}
            /\ result.serious_crimes + result.property_crimes
                    + result.antisocial_behaviour <= result.total_crimes

\* a successful call on two incidents of one serious category
C12_Witness ==
    /\ pc = "done" /\ kind = "crime" /\ result.api_success
    /\ result.total_crimes = 2
    /\ result.serious_crimes = 2
    /\ Cardinality(DOMAIN result.crimes_by_category) = 1

----------------------------------------------------------------------------
(* Properties of score_area *)

Within0To100(x) == RatLeq(RatInt(0), x) /\ RatLeq(x, RatInt(100))

\* C13: an area with commute_minutes <= 30 and no mainline change has the
\* commute sub-score 100, whatever max_minutes is, 30 or less included.
C13_ShortCommuteIs100 ==
    ( /\ scorePc = "done"
      /\ area.commute_minutes # None
      /\ area.commute_minutes[1] <= 30
      /\ area.mainline_changes \in {None, Some(0)} )
        => scores["commute"] = RatInt(100)

\* a 25-minute commute scored under max_minutes = 20
C13_Witness ==
    /\ scorePc = "done"
    /\ area.commute_minutes = Some(25)
    /\ area.mainline_changes \in {None, Some(0)}
    /\ criteria.commute.max_minutes = 20
    /\ scores["commute"] = RatInt(100)

\* C14: with commute_minutes >= max_minutes and commute_minutes > 30 the
\* commute sub-score before the penalty is 0 (and so is the sub-score itself
\* when there is no mainline change); after the penalty, for every
\* mainline_changes >= 0 and penalty_per_change >= 0, the sub-score is
\* within 0..100.
C14_CommuteFloor ==
    scorePc = "done" =>
        /\ ( /\ area.commute_minutes # None
             /\ area.commute_minutes[1] >= criteria.commute.max_minutes
             /\ area.commute_minutes[1] > 30 )
                => /\ CommuteBase(area, criteria) = RatInt(0)
                   /\ area.mainline_changes \in {None, Some(0)}
                        => scores["commute"] = RatInt(0)
        /\ Within0To100(scores["commute"])

\* a commute in the linear band whose penalty exceeds the sub-score
C14_Witness ==
    /\ scorePc = "done"
    /\ area.commute_minutes = Some(45)
    /\ criteria.commute.max_minutes = 60
    /\ area.mainline_changes = Some(7)
    /\ criteria.commute.penalty_per_change = None
    /\ CommuteBase(area, criteria) = RatInt(50)
    /\ scores["commute"] = RatInt(0)

\* C15: with no crime argument, or one whose api_success is false, the
\* safety sub-score is 70, whatever the other fields and the thresholds.
C15_NoCrimeDataIs70 ==
    (scorePc = "done" /\ (crime = None \/ ~crime[1].api_success))
        => scores["safety"] = RatInt(70)

\* a failed crime result that still carries counts, thresholds configured
C15_Witness ==
    /\ scorePc = "done"
    /\ crime # None
    /\ ~crime[1].api_success
    /\ crime[1].total_crimes = 450
    /\ crime[1].serious_crimes = 50
    /\ criteria.safety # None
    /\ scores["safety"] = RatInt(70)

\* C16: with api_success true and 0 < excellent < good < acceptable, the
\* safety sub-score is 100 up to excellent, 80 at good, 50 at acceptable,
\* 0 from twice acceptable on, within 0..100, and no higher than the
\* sub-score of any smaller weighted count.
C16_SafetyBands ==
    ( /\ scorePc = "done"
      /\ crime # None
      /\ crime[1].api_success )
        => LET weighted == crime[1].total_crimes + crime[1].serious_crimes
               th == IF criteria.safety = None
                     THEN [excellent |-> 50, good |-> 100, acceptable |-> 200]
                     ELSE criteria.safety[1]
               s == scores["safety"]
           IN  (0 < th.excellent /\ th.excellent < th.good /\ th.good < th.acceptable)
                 => /\ weighted <= th.excellent => s = RatInt(100)
                    /\ weighted = th.good => s = RatInt(80)
                    /\ weighted = th.acceptable => s = RatInt(50)
                    /\ weighted >= 2 * th.acceptable => s = RatInt(0)
                    /\ Within0To100(s)
                    /\ \A v \in 0..weighted : RatLeq(s, CrimeScore(v, th))

\* a successful crime result strictly inside the band between good and
\* acceptable
C16_Witness ==
    /\ scorePc = "done"
    /\ crime # None
    /\ crime[1].api_success
    /\ criteria.safety = Some(SafetyConfig(2, 4, 7))
    /\ crime[1].total_crimes + crime[1].serious_crimes = 5
    /\ scores["safety"] = RatInt(70)

\* C17: the nature sub-score is
\* min(100, min(100, 15 * parks_count) + 30 if countryside_access
\*          else min(100, 15 * parks_count));
\* parks_count = 3 with countryside_access gives 75.
C17_NatureScore ==
    scorePc = "done" =>
        LET capped == IF 15 * nature.parks_count < 100
                      THEN 15 * nature.parks_count ELSE 100
            bonus == IF nature.countryside_access THEN capped + 30 ELSE capped
        IN  /\ scores["nature"] = RatInt(IF bonus < 100 THEN bonus ELSE 100)
            /\ (nature.parks_count = 3 /\ nature.countryside_access)
                    => scores["nature"] = RatInt(75)

\* six parks with countryside access: the bonus is cut by the cap
C17_Witness ==
    /\ scorePc = "done"
    /\ nature.parks_count = 6
    /\ nature.countryside_access
    /\ scores["nature"] = RatInt(100)

\* what category k adds to the score
Contribution(k) ==
    IF k \in DOMAIN criteria.scoring
    THEN Rat(scores[k].num * criteria.scoring[k], scores[k].den * 100)
    ELSE RatInt(0)

\* C18: the score is a nearest integer of the sum of subscore/100 * weight
\* over the categories that are both weighted and among the six sub-scores,
\* a category without a weight adding nothing; the example of the
\* six weights 35/20/10/25/5/15, a 30-minute commute, 3 parks with
\* countryside access, 3 supermarkets and no crime data scores 92.
C18_WeightedSum ==
    scorePc = "done" =>
        LET sum == RatAdd(Contribution("commute"),
                   RatAdd(Contribution("nature"),
                   RatAdd(Contribution("amenities"),
                   RatAdd(Contribution("price"),
                   RatAdd(Contribution("general_vibe"), Contribution("safety"))))))
        IN  /\ DOMAIN scores =
                    {"commute", "nature", "amenities", "price", "general_vibe", "safety"}
            /\ total = sum
            /\ 2 * Abs(score[1] * sum.den - sum.num) <= sum.den
            /\ ( /\ criteria.scoring = ExampleWeights
                 /\ area = Area(Some(30), None)
                 /\ nature.parks_count = 3 /\ nature.countryside_access
                 /\ Len(amenities.supermarkets) = 3
                 /\ crime = None )
                    => score = Some(92)

\* the example, and its sum of 91.5
C18_Witness ==
    /\ scorePc = "done"
    /\ criteria.scoring = ExampleWeights
    /\ area = Area(Some(30), None)
    /\ nature.parks_count = 3 /\ nature.countryside_access
    /\ Len(amenities.supermarkets) = 3
    /\ crime = None
    /\ total = Rat(183, 2)
    /\ score = Some(92)

\* C19: for all arguments and all non-negative weights, score_area returns
\* an integer between 0 and 100.
C19_ScoreWithin0To100 ==
    scorePc = "done" => (score # None /\ score[1] \in 0..100)

----------------------------------------------------------------------------
(* Properties of the departure time *)

\* the days from a day of the given weekday to the next Monday-to-Friday day
\* after it
DaysToNextWeekday(weekday) ==
    CHOOSE d \in 1..7 :
        /\ (weekday + d) % 7 < 5
        /\ \A e \in 1..(d - 1) : (weekday + e) % 7 >= 5

\* C20: at every day and hour the departure time of either query is 08:00
\* on a day from Monday to Friday: the same day before 08:00 on a weekday,
\* otherwise the next weekday, which is Monday on Saturday and Sunday; and
\* the two queries get the same day.
C20_DepartureOnWeekday ==
    departPc = "done" =>
        /\ \A q \in {"A", "B"} :
              LET t == departure[q].time
              IN  /\ t.hour = 8
                  /\ t.weekday \in 0..4
                  /\ t.days = IF now_weekday < 5 /\ now_hour < 8 THEN 0
                              ELSE DaysToNextWeekday(now_weekday)
                  /\ now_weekday \in {5, 6} => t.weekday = 0
        /\ departure["A"].time = departure["B"].time

----------------------------------------------------------------------------
(* core/stations.py: StationDatabase *)

\* an element of the Overpass response: name is None when the tag is absent,
\* city and town are the tags addr:city and addr:town (empty when absent),
\* hasCoords tells whether the element carries "lat" and "lon"
OsmElement(type, name, city, town, hasCoords, place) ==
    [ type |-> type, name |-> name, city |-> Chars(city), town |-> Chars(town),
      hasCoords |-> hasCoords, place |-> place ]

OsmNode(name, city, place) ==
    OsmElement("node", Some(Chars(name)), city, "", TRUE, place)

\* the response of the station source: the request or its decoding raised
\* (error), or a body with the list "elements"
SourceError == [kind |-> "error", elements |-> <<>>]

SourceOk(elements) == [kind |-> "ok", elements |-> elements]

\* _load_stations: the snapshot, or [] when there is no file
LoadStations(file) == IF file = None THEN <<>> ELSE file[1]

\* the loop of refresh over data["elements"]: the stations built, and
\* whether element["lat"] raised KeyError
RECURSIVE ParseElements(_)
ParseElements(elements) ==
    IF elements = <<>> THEN [raised |-> FALSE, stations |-> <<>>]
    ELSE LET e == Head(elements)
             rest == ParseElements(Tail(elements))
         IN  IF e.type # "node" THEN rest
             ELSE IF ~e.hasCoords THEN [raised |-> TRUE, stations |-> <<>>]
             ELSE [ raised |-> rest.raised,
                    stations |->
                        << [ name |-> IF e.name = None THEN Chars("Unknown")
                                      ELSE e.name[1],
                             town |-> IF e.city # <<>> THEN e.city ELSE e.town,
                             place |-> e.place ] >> \o rest.stations ]

\* refresh: the stations of the answer; the fallback list when anything in
\* the try block raised
RefreshedStations(resp) ==
    LET parsed == ParseElements(resp.elements)
    IN  IF resp.kind = "ok" /\ ~parsed.raised THEN parsed.stations
        ELSE FallbackStations

RadiusKm == 150

\* round(distance, 1), in tenths of a kilometre
DistanceKmTenths(place) == Round(Rat(LondonMetres[place], 100))

RECURSIVE InsertByKey(_, _, _)
InsertByKey(sorted, item, key) ==
    IF sorted = <<>> THEN <<item>>
    ELSE IF key[item] < key[Head(sorted)] THEN <<item>> \o sorted
    ELSE <<Head(sorted)>> \o InsertByKey(Tail(sorted), item, key)

\* sorted(items, key=...): a stable insertion sort
RECURSIVE SortByKey(_, _)
SortByKey(items, key) ==
    IF items = <<>> THEN <<>>
    ELSE InsertByKey(SortByKey(SubSeq(items, 1, Len(items) - 1), key),
                     items[Len(items)], key)

Elements(seq) == { seq[i] : i \in 1..Len(seq) }

\* the filter of get_stations_near_london, in list order
RECURSIVE WithinRadius(_)
WithinRadius(list) ==
    IF list = <<>> THEN <<>>
    ELSE IF LondonMetres[Head(list).place] <= RadiusKm * 1000
         THEN <<Head(list)>> \o WithinRadius(Tail(list))
         ELSE WithinRadius(Tail(list))

\* get_stations_near_london(radius_km=150) on self.stations
NearLondon(list) ==
    LET near == WithinRadius(list)
    IN  SortByKey(near, [st \in Elements(near) |-> DistanceKmTenths(st.place)])

\* StationDatabase(): the snapshot is loaded, the source is not asked
NewStationDatabase ==
    /\ dbPc = "none"
    /\ stations' = LoadStations(stationsFile)
    /\ dbPc' = "loaded"
    /\ UNCHANGED <<stationsFile, nearby>>
    /\ UNCHANGED <<discVars, areaVars, runVars>>
    /\ UNCHANGED <<commuteVars, gatherVars, scoreVars, departVars>>

\* refresh, with _save_stations on both of its paths
RefreshStations(resp) ==
    /\ dbPc # "none"
    /\ stations' = RefreshedStations(resp)
    /\ stationsFile' = Some(stations')
    /\ dbPc' = "refreshed"
    /\ UNCHANGED nearby
    /\ UNCHANGED <<discVars, areaVars, runVars>>
    /\ UNCHANGED <<commuteVars, gatherVars, scoreVars, departVars>>

\* get_stations_near_london: refreshes first when self.stations is empty
GetStationsNearLondon(resp) ==
    /\ dbPc # "none"
    /\ stations' = IF stations = <<>> THEN RefreshedStations(resp) ELSE stations
    /\ stationsFile' = IF stations = <<>> THEN Some(stations') ELSE stationsFile
    /\ dbPc' = IF stations = <<>> THEN "refreshed" ELSE dbPc
    /\ nearby' = NearLondon(stations')
    /\ UNCHANGED <<discVars, areaVars, runVars>>
    /\ UNCHANGED <<commuteVars, gatherVars, scoreVars, departVars>>

\* the process ends: the StationDatabase is gone, its snapshot stays
DropStationDatabase ==
    /\ dbPc # "none"
    /\ discPc = "idle"
    /\ stations' = <<>>
    /\ nearby' = <<>>
    /\ dbPc' = "none"
    /\ UNCHANGED stationsFile
    /\ UNCHANGED <<discVars, areaVars, runVars>>
    /\ UNCHANGED <<commuteVars, gatherVars, scoreVars, departVars>>

----------------------------------------------------------------------------
(* scripts/find_commutable_areas.py: find_commutable_stations and main *)

DefaultWalkingBuffer == 10

\* the dict appended to commutable
AreaEntry(station, train_time, walking_buffer) ==
    [ name |-> IF station.town # <<>> THEN station.town
               ELSE Remove(station.name, Chars(" Station")),
      station |-> station.name,
      commute_minutes |-> train_time + walking_buffer,
      train_minutes |-> train_time,
      place |-> station.place,
      status |-> "pending",
      explored_at |-> None,
      score |-> None ]

\* what tells one area of the list from another: its name and its station
AreaKey(entry) == [name |-> entry.name, station |-> entry.station]

AreaKeys(areas) == { AreaKey(areas[i]) : i \in 1..Len(areas) }

\* config/areas.yaml as a dict: the list areas and the list priority_areas
\* (empty when the key is absent)
AreasData(areas, priority_areas) ==
    [ areas |-> areas, priority_areas |-> priority_areas ]

\* save_areas(areas) of find_commutable_areas.py: the file's other keys
\* are kept, its list of areas is replaced
SavedAreas(file, areas) ==
    LET existing == IF file = None THEN AreasData(<<>>, <<>>) ELSE file[1]
    IN  [existing EXCEPT !.areas = areas]

\* main up to the loop of find_commutable_stations: StationDatabase(),
\* CommuteChecker(), get_stations_near_london
StartDiscovery(max_minutes, walking_buffer, resp) ==
    /\ discPc = "idle"
    /\ runPc = "idle"
    /\ dbPc = "none"
    /\ LET loaded == LoadStations(stationsFile)
       IN  /\ stations' = IF loaded = <<>> THEN RefreshedStations(resp) ELSE loaded
           /\ stationsFile' = IF loaded = <<>> THEN Some(stations') ELSE stationsFile
           /\ dbPc' = IF loaded = <<>> THEN "refreshed" ELSE "loaded"
    /\ nearby' = NearLondon(stations')
    /\ candidates' = nearby'
    /\ cache' = LoadCache(cacheFile)
    /\ discArgs' = [max_minutes |-> max_minutes, walking_buffer |-> walking_buffer]
    /\ discIdx' = 1
    /\ commutable' = <<>>
    /\ discPc' = "loop"
    /\ UNCHANGED <<cacheFile, traveltime_app_id, traveltime_api_key,
                   google_api_key, lastOp, lastGet, writes>>
    /\ UNCHANGED <<areaVars, runVars>>
    /\ UNCHANGED <<gatherVars, scoreVars, departVars>>

\* the two tests of the loop body that lead to commutable.append
KeepStation(station, train_time, effective_max) ==
    /\ train_time # None
    /\ train_time[1] <= effective_max
    /\ LET entry == AreaEntry(station, train_time[1], 0)
       IN  ~IsLondonZone14(entry.name, station.name, station.place)

\* one iteration of the loop over candidates
CheckStation(respA, respB) ==
    /\ discPc = "loop"
    /\ discIdx <= Len(candidates)
    /\ LET station == candidates[discIdx]
           cached == GetCachedTime(station.name)
           r == ResolveTrainTime(station.name, respA, respB)
           train_time == IF cached # None THEN cached ELSE r.ret
           store == cached = None /\ train_time # None
           effective_max == discArgs.max_minutes - discArgs.walking_buffer
       IN  /\ lastGet' = IF cached = None THEN r ELSE lastGet
           /\ lastOp' = IF store THEN "cache_time"
                        ELSE IF cached = None THEN "get" ELSE lastOp
           /\ cache' = IF store
                       THEN DictSet(cache, Lower(station.name), train_time[1])
                       ELSE cache
           /\ cacheFile' = IF store THEN cache' ELSE cacheFile
           /\ writes' = IF store
                        THEN Append(writes, [name |-> station.name,
                                             minutes |-> train_time[1]])
                        ELSE writes
           /\ commutable' =
                  IF KeepStation(station, train_time, effective_max)
                  THEN Append(commutable,
                              AreaEntry(station, train_time[1],
                                        discArgs.walking_buffer))
                  ELSE commutable
    /\ discIdx' = discIdx + 1
    /\ UNCHANGED <<discPc, candidates, discArgs>>
    /\ UNCHANGED <<traveltime_app_id, traveltime_api_key, google_api_key>>
    /\ UNCHANGED <<stationVars, areaVars, runVars>>
    /\ UNCHANGED <<gatherVars, scoreVars, departVars>>

\* variant: the list is saved in the order the stations were found
SortAreas_Unsorted(areas) == areas

\* commutable.sort(key=lambda x: x["commute_minutes"])
SortAreas(areas) ==
    SortByKey(areas, [a \in Elements(areas) |-> a.commute_minutes])

\* the end of find_commutable_stations and the rest of main: the sort,
\* then save_areas
FinishDiscovery ==
    /\ discPc = "loop"
    /\ discIdx > Len(candidates)
    /\ commutable' = SortAreas(commutable)
    /\ areasFile' = Some(SavedAreas(areasFile, commutable'))
    /\ discPc' = "done"
    /\ UNCHANGED <<candidates, discIdx, discArgs>>
    /\ areaHistory' = [areaHistory EXCEPT !.listed = @ \cup AreaKeys(commutable')]
    /\ UNCHANGED <<areaCaches, notified>>
    /\ UNCHANGED <<stationVars, runVars>>
    /\ UNCHANGED <<commuteVars, gatherVars, scoreVars, departVars>>

\* the process ends
ExitDiscovery ==
    /\ discPc = "done"
    /\ discPc' = "idle"
    /\ candidates' = <<>>
    /\ discIdx' = 1
    /\ commutable' = <<>>
    /\ discArgs' = <<>>
    /\ stations' = <<>>
    /\ nearby' = <<>>
    /\ dbPc' = "none"
    /\ UNCHANGED stationsFile
    /\ UNCHANGED <<areaVars, runVars>>
    /\ UNCHANGED <<commuteVars, gatherVars, scoreVars, departVars>>

\* the station source's answers of the directory specification
ExtraElements ==
    { OsmNode("Hitchin", "Hitchin", "Hitchin"),
      OsmNode("York", "York", "York"),
      OsmElement("node", None, "", "Luton", TRUE, "Luton"),
      OsmElement("way", Some(Chars("Bedford")), "", "", FALSE, "Bedford"),
      OsmElement("node", Some(Chars("Stevenage")), "", "", FALSE, "Stevenage") }

MaxStations == 2

SourceResponses ==
    {SourceError} \cup { SourceOk(e) : e \in SeqsUpTo(ExtraElements, MaxStations) }

NextStations ==
    \/ NewStationDatabase
    \/ \E resp \in SourceResponses : RefreshStations(resp)
    \/ \E resp \in SourceResponses : GetStationsNearLondon(resp)
    \/ DropStationDatabase

InitSpecStations ==
    CommuteIdle /\ InitGather /\ ScoreIdle /\ DepartIdle /\ PipelineIdle

SpecStations == InitSpecStations /\ [][NextStations]_vars

\* the stations of the discovery specification: two of one town, one with
\* " Station" in its name, one named after a London terminus far from
\* London, one close to King's Cross
DiscoveryElements ==
    { OsmNode("St Albans City", "St Albans", "St Albans City"),
      OsmNode("St Albans Abbey", "St Albans", "St Albans Abbey"),
      OsmNode("Hitchin Station", "", "Hitchin"),
      OsmNode("London Bridge", "", "Cambridge"),
      OsmNode("Alexandra Palace", "", "Alexandra Palace") }

DiscoveryResponses ==
    { SourceOk(e) : e \in SeqsUpTo(DiscoveryElements, MaxStations) }

\* Provider A's answers of the discovery specification: no time, and train
\* times of 25, 50 and 70 minutes
DiscoveryRespA ==
    { [kind |-> "error", secs |-> 0], [kind |-> "ok", secs |-> 1500],
      [kind |-> "ok", secs |-> 3000], [kind |-> "ok", secs |-> 4200] }

DiscoveryRespB == [kind |-> "error", secs |-> 0]

DiscoveryMaxMinutes == {45, 60}

\* the caches a previous run can have left behind
DiscoveryFiles ==
    { EmptyCache, [k \in {Chars("st albans city")} |-> 20] }

NextDiscovery ==
    \/ \E m \in DiscoveryMaxMinutes, resp \in DiscoveryResponses :
           StartDiscovery(m, DefaultWalkingBuffer, resp)
    \/ \E a \in DiscoveryRespA : CheckStation(a, DiscoveryRespB)
    \/ FinishDiscovery

InitSpecDiscovery ==
    /\ cacheFile \in DiscoveryFiles
    /\ cache = LoadCache(cacheFile)
    /\ traveltime_app_id = "key"
    /\ traveltime_api_key = "key"
    /\ google_api_key = NoStr
    /\ lastOp = "none"
    /\ lastGet = NoGet
    /\ writes = <<>>
    /\ InitGather /\ ScoreIdle /\ DepartIdle /\ PipelineIdle

SpecDiscovery == InitSpecDiscovery /\ [][NextDiscovery]_vars

----------------------------------------------------------------------------
(* Properties of find_commutable_stations *)

\* the candidates the loop has handled so far
Handled == 1..Min(discIdx - 1, Len(candidates))

\* the area name the loop derives for a station
AreaNameOf(station) ==
    IF station.town # <<>> THEN station.town
    ELSE Remove(station.name, Chars(" Station"))

\* the exclusion rule as documented: a keyword in the lowercased area name
\* or station name, or less than 15 km from King's Cross
ExcludedByRule(area_name, station_name, place) ==
    LET n == Lower(area_name)
        st == Lower(station_name)
    IN  \/ KingsCrossMetres[place] < 15000
        \/ \E k \in 1..Len(london_keywords) :
              Contains(n, KeywordChars[k]) \/ Contains(st, KeywordChars[k])

ListedAt(station) ==
    { j \in 1..Len(commutable) :
        /\ commutable[j].station = station.name
        /\ commutable[j].place = station.place }

\* C21: the filter is true exactly for the stations the rule excludes (a
\* keyword in the lowercased name or station name, or under 15 km from
\* King's Cross); no such station is in the list find_commutable_stations
\* builds, and a station named "London Bridge" is in it at no distance
C21_ExcludedNeverListed ==
    /\ \A i \in Handled :
          i = discIdx - 1 =>
              LET st == candidates[i]
              IN  IsLondonZone14(AreaNameOf(st), st.name, st.place)
                      <=> ExcludedByRule(AreaNameOf(st), st.name, st.place)
    /\ \A j \in 1..Len(commutable) :
          /\ ~ExcludedByRule(commutable[j].name, commutable[j].station,
                             commutable[j].place)
          /\ commutable[j].station # Chars("London Bridge")

\* a finished run that met a "London Bridge" 75 km from King's Cross whose
\* train time was resolved, cached and within the limit
C21_Witness ==
    /\ discPc = "done"
    /\ \E i \in 1..Len(candidates) :
          /\ candidates[i].name = Chars("London Bridge")
          /\ KingsCrossMetres[candidates[i].place] > 15000
          /\ Chars("london bridge") \in DOMAIN cache
          /\ cache[Chars("london bridge")]
                 <= discArgs.max_minutes - discArgs.walking_buffer
          /\ ListedAt(candidates[i]) = {}

\* C25: a station whose travel time resolves to none becomes no area and
\* gets no cache entry; every area has a resolved train_minutes of at most
\* max_minutes - walking_buffer, commute_minutes = train_minutes +
\* walking_buffer, status pending and no score; the returned list ascends in
\* commute_minutes
C25_AreasProduced ==
    /\ \A i \in Handled :
          Lower(candidates[i].name) \notin DOMAIN cache
              => ListedAt(candidates[i]) = {}
    /\ lastOp = "get" =>
          /\ lastGet.ret = None
          /\ Lower(lastGet.name) \notin DOMAIN cache
          /\ \A w \in 1..Len(writes) : writes[w].name # lastGet.name
    /\ \A j \in 1..Len(commutable) :
          LET a == commutable[j]
          IN  /\ Lower(a.station) \in DOMAIN cache
              /\ a.train_minutes = cache[Lower(a.station)]
              /\ a.train_minutes <= discArgs.max_minutes - discArgs.walking_buffer
              /\ a.commute_minutes = a.train_minutes + discArgs.walking_buffer
              /\ a.status = "pending"
              /\ a.score = None
    /\ discPc = "done" =>
          /\ \A j \in 1..(Len(commutable) - 1) :
                commutable[j].commute_minutes <= commutable[j + 1].commute_minutes
          /\ areasFile # None /\ areasFile[1].areas = commutable

\* a finished run over two stations: the travel time of one resolved to
\* none, the other became an area
C25_Witness ==
    /\ discPc = "done"
    /\ Len(candidates) = 2
    /\ Len(commutable) = 1
    /\ \E i \in 1..2 : Lower(candidates[i].name) \notin DOMAIN cache
    /\ Len(writes) = 1

----------------------------------------------------------------------------
(* Properties of StationDatabase *)

\* C22: once the directory has been loaded and refreshed from the source,
\* it is not empty, whatever the source answered
C22_DirectoryNeverEmpty == dbPc = "refreshed" => stations # <<>>

----------------------------------------------------------------------------
(* scripts/daily_explore.py: main and explore_area *)

\* s.replace(" ", "_")
Underscored(s) == [i \in 1..Len(s) |-> IF s[i] = " " THEN "_" ELSE s[i]]

\* the file name save_area_cache derives from the area's name
CacheFileName(area_name) ==
    Chars("area_") \o Underscored(Lower(area_name)) \o Chars(".json")

\* save_area_cache(area_name, contents) on the cache directory
SaveAreaCache(files, area_name, contents) ==
    DictSet(files, CacheFileName(area_name), contents)

\* variant: the cache file is written in a dry run too
CachesAfterSave_Always(dry_run, files, area_name, contents) ==
    SaveAreaCache(files, area_name, contents)

\* if not dry_run: save_area_cache(area["name"], cache_data)
CachesAfterSave(dry_run, files, area_name, contents) ==
    IF dry_run THEN files ELSE SaveAreaCache(files, area_name, contents)

FirstIndex(S) == IF S = {} THEN 0 ELSE CHOOSE i \in S : \A j \in S : i <= j

PendingNamed(areas, name) ==
    { i \in 1..Len(areas) : areas[i].name = name /\ areas[i].status = "pending" }

\* the loop of get_next_area over priority_areas: the first priority name
\* that has a pending area, and the first pending area of that name
RECURSIVE PriorityPick(_, _)
PriorityPick(areas, names) ==
    IF names = <<>> THEN 0
    ELSE IF PendingNamed(areas, Head(names)) # {}
         THEN FirstIndex(PendingNamed(areas, Head(names)))
         ELSE PriorityPick(areas, Tail(names))

\* get_next_area: the index of the area returned, 0 for None
GetNextArea(contents) ==
    LET prio == PriorityPick(contents.areas, contents.priority_areas)
    IN  IF prio # 0 THEN prio
        ELSE FirstIndex({ i \in 1..Len(contents.areas) :
                            contents.areas[i].status = "pending" })

\* --area: the first area whose lowercased name is the lowercased argument
AreaByName(contents, arg) ==
    FirstIndex({ i \in 1..Len(contents.areas) :
                   Lower(contents.areas[i].name) = Lower(arg) })

\* the dict cache_data as explore_area first builds it; amenities, nature,
\* score and error are None while the key is absent
InitialCacheData(entry) ==
    [ explored_at |-> "now",
      station |-> entry.station,
      commute_minutes |-> entry.commute_minutes,
      exploration_status |-> "in_progress",
      amenities |-> None,
      nature |-> None,
      score |-> None,
      error |-> None ]

NoneGathered == [ amenities |-> None, nature |-> None, crime |-> None ]

\* main up to the first gatherer call: load_areas, the choice of the area,
\* the start of explore_area with its first save
StartRun(area_arg, dry_run, no_notify, crit) ==
    /\ runPc = "idle"
    /\ discPc = "idle"
    /\ runArgs' = [area |-> area_arg, dry_run |-> dry_run, no_notify |-> no_notify]
    /\ runCriteria' = crit
    /\ IF areasFile = None
       THEN \* load_areas raises: there is no file to open
            /\ runPc' = "failed"
            /\ UNCHANGED <<areas_data, runArea, cache_data, gathered, areaCaches>>
       ELSE LET loaded == areasFile[1]
                picked == IF area_arg # None THEN AreaByName(loaded, area_arg[1])
                          ELSE GetNextArea(loaded)
            IN  /\ areas_data' = loaded
                /\ IF loaded.areas = <<>> \/ picked = 0
                   THEN /\ runPc' = "exit"
                        /\ UNCHANGED <<runArea, cache_data, gathered, areaCaches>>
                   ELSE LET entry == loaded.areas[picked]
                        IN  /\ runArea' = [index |-> picked, entry |-> entry]
                            /\ cache_data' = InitialCacheData(entry)
                            /\ areaCaches' = CachesAfterSave(dry_run, areaCaches,
                                                             entry.name, cache_data')
                            /\ gathered' = NoneGathered
                            /\ runPc' = "amenities"
    /\ UNCHANGED <<runsDone, initialAreas, areasFile, notified, areaHistory>>
    /\ UNCHANGED <<stationVars, discVars>>
    /\ UNCHANGED <<commuteVars, gatherVars, scoreVars, departVars>>

\* the except clause of explore_area: the cache is marked failed and saved
\* unless the run is dry, and the exception is raised again, out of main
FailedCache(contents, message) ==
    [contents EXCEPT !.exploration_status = "failed", !.error = Some(message)]

RunRaises(message) ==
    /\ cache_data' = IF runArgs.dry_run THEN cache_data
                     ELSE FailedCache(cache_data, message)
    /\ areaCaches' = CachesAfterSave(runArgs.dry_run, areaCaches,
                                     runArea.entry.name, cache_data')
    /\ runPc' = "failed"

\* the amenities stage of explore_area; area["lat"] raises KeyError for an
\* entry without coordinates
AmenitiesStage(am) ==
    /\ runPc = "amenities"
    /\ IF runArea.entry.place = NoStr
       THEN RunRaises("'lat'") /\ UNCHANGED gathered
       ELSE /\ gathered' = [gathered EXCEPT !.amenities = Some(am)]
            /\ cache_data' =
                   IF runArgs.dry_run
                   THEN [cache_data EXCEPT !.amenities = Some(am)]
                   ELSE [cache_data EXCEPT !.amenities = Some(am),
                                           !.exploration_status = "amenities_complete"]
            /\ areaCaches' = CachesAfterSave(runArgs.dry_run, areaCaches,
                                             runArea.entry.name, cache_data')
            /\ runPc' = "nature"
    /\ UNCHANGED <<runArgs, areas_data, runArea, runCriteria, runsDone, initialAreas>>
    /\ UNCHANGED <<areasFile, notified, areaHistory>>
    /\ UNCHANGED <<stationVars, discVars>>
    /\ UNCHANGED <<commuteVars, gatherVars, scoreVars, departVars>>

\* the nature stage of explore_area
NatureStage(nat) ==
    /\ runPc = "nature"
    /\ gathered' = [gathered EXCEPT !.nature = Some(nat)]
    /\ cache_data' =
           IF runArgs.dry_run
           THEN [cache_data EXCEPT !.nature = Some(nat)]
           ELSE [cache_data EXCEPT !.nature = Some(nat),
                                   !.exploration_status = "nature_complete"]
    /\ areaCaches' = CachesAfterSave(runArgs.dry_run, areaCaches,
                                     runArea.entry.name, cache_data')
    /\ runPc' = "score"
    /\ UNCHANGED <<runArgs, areas_data, runArea, runCriteria, runsDone, initialAreas>>
    /\ UNCHANGED <<areasFile, notified, areaHistory>>
    /\ UNCHANGED <<stationVars, discVars>>
    /\ UNCHANGED <<commuteVars, gatherVars, scoreVars, departVars>>

\* score_area(area, amenities, nature): crime keeps its default, None
ExploreScore(entry, am, nat, crit) ==
    LET sc == SubScores(Area(Some(entry.commute_minutes), None), am, nat, None, crit)
    IN  Round(WeightedTotal(DOMAIN crit.scoring, crit.scoring, sc))

\* variant: the score is stored without the status
ScoredCache_NoStatus(contents, s) == [contents EXCEPT !.score = Some(s)]

\* cache_data["score"] = score; cache_data["exploration_status"] = "complete"
ScoredCache(contents, s) ==
    [contents EXCEPT !.score = Some(s), !.exploration_status = "complete"]

\* the scoring stage of explore_area with its final save; score_area raises
\* when criteria.yaml is unusable
ScoreStage ==
    /\ runPc = "score"
    /\ IF runCriteria = None
       THEN RunRaises("criteria")
       ELSE /\ cache_data' =
                   ScoredCache(cache_data,
                               ExploreScore(runArea.entry, gathered.amenities[1],
                                            gathered.nature[1], runCriteria[1]))
            /\ areaCaches' = CachesAfterSave(runArgs.dry_run, areaCaches,
                                             runArea.entry.name, cache_data')
            /\ runPc' = "update"
    /\ UNCHANGED <<runArgs, areas_data, runArea, gathered, runCriteria, runsDone,
                   initialAreas>>
    /\ UNCHANGED <<areasFile, notified, areaHistory>>
    /\ UNCHANGED <<stationVars, discVars>>
    /\ UNCHANGED <<commuteVars, gatherVars, scoreVars, departVars>>

\* what explore_area returns
UpdatedArea(entry, s) ==
    [entry EXCEPT !.status = "explored", !.explored_at = Some("today"),
                  !.score = Some(s)]

\* the loop of main over areas_data["areas"]: the first entry with the
\* name of updated_area is replaced
ReplaceArea(areas, picked, updated) ==
    LET i == FirstIndex({ k \in 1..Len(areas) : areas[k].name = updated.name })
    IN  IF i = 0 THEN areas ELSE [areas EXCEPT ![i] = updated]

\* the rest of main after explore_area returned: unless the run is dry,
\* the entry is replaced, areas.yaml saved and the notification sent; a
\* notification that fails is only reported
UpdateStage(sent) ==
    /\ runPc = "update"
    /\ LET updated == UpdatedArea(runArea.entry, cache_data.score[1])
           contents == [areas_data EXCEPT
                      !.areas = ReplaceArea(@, runArea.index, updated)]
       IN  /\ areasFile' = IF runArgs.dry_run THEN areasFile ELSE Some(contents)
           /\ notified' = IF ~runArgs.dry_run /\ ~runArgs.no_notify /\ sent
                          THEN notified \cup {updated.name}
                          ELSE notified
    /\ areaHistory' =
           IF runArgs.dry_run THEN areaHistory
           ELSE [areaHistory EXCEPT !.explored = @ \cup {AreaKey(runArea.entry)}]
    /\ runsDone' = IF ~runArgs.dry_run /\ runArgs.area = None
                   THEN runsDone + 1 ELSE runsDone
    /\ runPc' = "done"
    /\ UNCHANGED <<runArgs, areas_data, runArea, cache_data, gathered, runCriteria,
                   initialAreas>>
    /\ UNCHANGED areaCaches
    /\ UNCHANGED <<stationVars, discVars>>
    /\ UNCHANGED <<commuteVars, gatherVars, scoreVars, departVars>>

\* the process ends
ExitRun ==
    /\ runPc \in {"done", "failed", "exit"}
    /\ runPc' = "idle"
    /\ runArgs' = <<>>
    /\ areas_data' = <<>>
    /\ runArea' = <<>>
    /\ cache_data' = <<>>
    /\ gathered' = <<>>
    /\ runCriteria' = None
    /\ UNCHANGED <<runsDone, initialAreas>>
    /\ UNCHANGED <<stationVars, discVars, areaVars>>
    /\ UNCHANGED <<commuteVars, gatherVars, scoreVars, departVars>>

MaxRuns == 2

\* what gather_amenities can return: a failure result, and the result of
\* a response with two supermarkets
AmenitiesOutcomes ==
    { GathererCatch("amenities", ZeroShape("amenities"),
                    Err([kind |-> "timeout", status |-> 0], MaxRetries - 1, 1)).result,
      Process("amenities", ZeroShape("amenities"),
              Payload(TRUE, << Feature("A", NoStr, "supermarket", NoStr, NoStr,
                                       NoStr, NoStr, Some(1)),
                               Feature("B", NoStr, "supermarket", NoStr, NoStr,
                                       NoStr, NoStr, Some(2)) >>)) }

\* what gather_nature_data can return: a failure result, and the result of
\* a response with one park
NatureOutcomes ==
    { GathererCatch("nature", ZeroShape("nature"),
                    Err([kind |-> "http", status |-> 404], 0, NumOverpassEndpoints)).result,
      Process("nature", ZeroShape("nature"),
              Payload(TRUE, << Feature("A", NoStr, NoStr, NoStr, "park", NoStr,
                                       NoStr, Some(1)) >>)) }

\* an entry of areas.yaml as find_commutable_stations writes it
PendingArea(name, station, train_minutes, place) ==
    [ AreaEntry(Station(station, name, place), train_minutes, DefaultWalkingBuffer)
        EXCEPT !.place = place ]

\* an entry added by hand, without coordinates
ManualArea(name, station, commute_minutes) ==
    [ PendingArea(name, station, commute_minutes, NoStr)
        EXCEPT !.commute_minutes = commute_minutes ]

\* the areas.yaml files of the exploration specification: two areas, two
\* areas of one town, a priority area, an area added by hand
ExploreFiles ==
    { AreasData(<< PendingArea("St Albans", "St Albans City", 20, "St Albans City"),
                   PendingArea("Hitchin", "Hitchin", 30, "Hitchin") >>, <<>>),
      AreasData(<< PendingArea("St Albans", "St Albans City", 20, "St Albans City"),
                   PendingArea("St Albans", "St Albans Abbey", 50, "St Albans Abbey") >>,
                <<>>),
      AreasData(<< PendingArea("St Albans", "St Albans City", 20, "St Albans City"),
                   PendingArea("Hitchin", "Hitchin", 30, "Hitchin") >>,
                << Chars("Hitchin") >>),
      AreasData(<< ManualArea("Ely", "Ely", 75) >>, <<>>) }

ExploreCriteria ==
    { None, Some(Criteria(ExampleWeights, 60, None, None)) }

ExploreAreaArgs == { None, Some(Chars("st albans")) }

NextExplore ==
    \/ \E a \in ExploreAreaArgs, d \in BOOLEAN, n \in BOOLEAN, c \in ExploreCriteria :
           runsDone < MaxRuns /\ StartRun(a, d, n, c)
    \/ \E am \in AmenitiesOutcomes : AmenitiesStage(am)
    \/ \E nat \in NatureOutcomes : NatureStage(nat)
    \/ ScoreStage
    \/ \E sent \in BOOLEAN : UpdateStage(sent)
    \/ ExitRun

InitSpecExplore ==
    /\ CommuteIdle /\ InitGather /\ ScoreIdle /\ DepartIdle
    /\ StationsIdle /\ DiscoveryIdle /\ RunAtRest
    /\ areasFile \in { Some(f) : f \in ExploreFiles }
    /\ initialAreas = areasFile[1].areas
    /\ areaCaches = <<>>
    /\ notified = {}
    /\ areaHistory = [listed |-> AreaKeys(areasFile[1].areas), explored |-> {}]

SpecExplore == InitSpecExplore /\ [][NextExplore]_vars

----------------------------------------------------------------------------
(* Properties of an exploration run *)

\* C24: an exploration that reached its score has called the three
\* gatherers, amenities, nature and crime, and scored their three results
C24_AllThreeGatherers ==
    runPc \in {"update", "done"} =>
        /\ gathered.amenities # None
        /\ gathered.nature # None
        /\ gathered.crime # None

WeightOf(crit, key) ==
    IF key \in DOMAIN crit.scoring THEN crit.scoring[key] ELSE 0

\* the score of an area whose amenities sub-score is 20, nature sub-score 0
\* and safety sub-score 70, the two placeholders being 70
DegradedScore(entry, crit) ==
    LET part(key, sub) == RatMul(RatDiv(sub, RatInt(100)), RatInt(WeightOf(crit, key)))
    IN  Round(RatAdd(part("commute",
                          CommuteScore(Area(Some(entry.commute_minutes), None), crit)),
              RatAdd(part("amenities", RatInt(20)),
              RatAdd(part("nature", RatInt(0)),
              RatAdd(part("safety", RatInt(70)),
              RatAdd(part("price", RatInt(70)),
                     part("general_vibe", RatInt(70))))))))

BothGatherersFailed ==
    /\ gathered # <<>>
    /\ gathered.amenities # None /\ ~gathered.amenities[1].api_success
    /\ gathered.nature # None /\ ~gathered.nature[1].api_success

\* C26: when gather_amenities and gather_nature_data returned failure
\* results and there is no crime data, score_area still returns a score,
\* the one of sub-scores 20 (amenities), 0 (nature) and 70 (safety), and the
\* run marks the area explored with that score
C26_FailedEnrichmentStillScores ==
    BothGatherersFailed /\ runCriteria # None =>
        /\ runPc # "failed"
        /\ runPc \in {"update", "done"} =>
              cache_data.score = Some(DegradedScore(runArea.entry, runCriteria[1]))
        /\ runPc = "done" /\ ~runArgs.dry_run =>
              \E i \in 1..Len(areasFile[1].areas) :
                  LET a == areasFile[1].areas[i]
                  IN  /\ a.name = runArea.entry.name
                      /\ a.status = "explored"
                      /\ a.score = Some(DegradedScore(runArea.entry, runCriteria[1]))

\* a finished run whose two gatherers failed and whose area is explored
C26_Witness ==
    /\ runPc = "done"
    /\ ~runArgs.dry_run
    /\ BothGatherersFailed
    /\ areasFile[1].areas[runArea.index].status = "explored"
    /\ areasFile[1].areas[runArea.index].score # None

IsDryRun(args) == args # <<>> /\ args.dry_run

\* C27: no step of a run with --dry-run writes a cache file or areas.yaml
\* or sends a notification, whether the exploration succeeds or fails
C27_DryRunWritesNothing ==
    [][IsDryRun(runArgs) \/ IsDryRun(runArgs')
          => UNCHANGED <<areasFile, areaCaches, notified>>]_vars

\* a dry run that explored and scored an area to its end
C27_Witness ==
    /\ runPc = "done"
    /\ runArgs.dry_run
    /\ cache_data.score # None
    /\ areaCaches = <<>>

PendingIn(areas) == { i \in 1..Len(areas) : areas[i].status = "pending" }

\* C28: a non-dry run without --area that found a pending area turns that
\* area's entry to explored, and after as many such runs as there were
\* pending areas at the start no pending area is left
C28_RunsMakeProgress ==
    /\ runPc = "done" /\ ~runArgs.dry_run /\ runArgs.area = None =>
          areasFile[1].areas[runArea.index].status = "explored"
    /\ areasFile # None /\ runsDone >= Cardinality(PendingIn(initialAreas)) =>
          PendingIn(areasFile[1].areas) = {}

\* the steps the exploration_status of a cache file may take
StatusSteps ==
    { <<"in_progress", "amenities_complete">>,
      <<"amenities_complete", "nature_complete">>,
      <<"nature_complete", "complete">>,
      <<"in_progress", "failed">>,
      <<"amenities_complete", "failed">>,
      <<"nature_complete", "failed">> }

\* C29: during a non-dry exploration the exploration_status of the area's
\* cache file only advances in_progress, amenities_complete,
\* nature_complete, complete, or moves to failed from a stage before
\* complete; a cache file holds a score exactly when its status is complete;
\* a failed exploration leaves areas.yaml as it was
C29_CacheStatusAdvances ==
    /\ [](\A f \in DOMAIN areaCaches :
             areaCaches[f].score # None
                 <=> areaCaches[f].exploration_status = "complete")
    /\ [](runPc = "failed" /\ areasFile # None => areasFile[1] = areas_data)
    /\ [][runPc \notin {"idle", "exit"} /\ runArea # <<>> =>
             LET f == CacheFileName(runArea.entry.name)
             IN  /\ \A g \in DOMAIN areaCaches :
                        g # f => g \in DOMAIN areaCaches'
                                  /\ areaCaches'[g] = areaCaches[g]
                 /\ f \in DOMAIN areaCaches =>
                        /\ f \in DOMAIN areaCaches'
                        /\ \/ areaCaches'[f] = areaCaches[f]
                           \/ << areaCaches[f].exploration_status,
                                 areaCaches'[f].exploration_status >> \in StatusSteps]_vars

\* a failed non-dry run: the cache file says failed and holds no score, the
\* area is still pending in areas.yaml
C29_Witness ==
    /\ runPc = "failed"
    /\ runArea # <<>>
    /\ ~runArgs.dry_run
    /\ areaCaches[CacheFileName(runArea.entry.name)].exploration_status = "failed"
    /\ areaCaches[CacheFileName(runArea.entry.name)].amenities # None
    /\ areasFile[1].areas[runArea.index].status = "pending"

----------------------------------------------------------------------------
(* Discovery runs and exploration runs on one areas.yaml *)

PipelineResponses ==
    { SourceOk(<< OsmNode("St Albans City", "St Albans", "St Albans City"),
                  OsmNode("Hitchin Station", "", "Hitchin") >>) }

PipelineRespA ==
    { [kind |-> "error", secs |-> 0], [kind |-> "ok", secs |-> 1500] }

PipelineMaxMinutes == 60

NextPipeline ==
    \/ \E resp \in PipelineResponses :
           StartDiscovery(PipelineMaxMinutes, DefaultWalkingBuffer, resp)
    \/ \E a \in PipelineRespA : CheckStation(a, DiscoveryRespB)
    \/ FinishDiscovery
    \/ ExitDiscovery
    \/ \E d \in BOOLEAN, c \in ExploreCriteria :
           runsDone < MaxRuns /\ StartRun(None, d, TRUE, c)
    \/ \E am \in AmenitiesOutcomes : AmenitiesStage(am)
    \/ \E nat \in NatureOutcomes : NatureStage(nat)
    \/ ScoreStage
    \/ \E sent \in BOOLEAN : UpdateStage(sent)
    \/ ExitRun

InitSpecPipeline ==
    /\ cacheFile = EmptyCache
    /\ cache = LoadCache(cacheFile)
    /\ traveltime_app_id = "key"
    /\ traveltime_api_key = "key"
    /\ google_api_key = NoStr
    /\ lastOp = "none"
    /\ lastGet = NoGet
    /\ writes = <<>>
    /\ InitGather /\ ScoreIdle /\ DepartIdle /\ PipelineIdle

SpecPipeline == InitSpecPipeline /\ [][NextPipeline]_vars

\* C23: whatever discovery and exploration runs follow, every area that
\* areas.yaml has listed is still listed, and every area it has shown as
\* explored is still explored and still has its score
C23_ExploredStaysExplored ==
    areasFile # None =>
        /\ areaHistory.listed \subseteq AreaKeys(areasFile[1].areas)
        /\ \A e \in areaHistory.explored :
              \E i \in 1..Len(areasFile[1].areas) :
                  LET a == areasFile[1].areas[i]
                  IN  AreaKey(a) = e /\ a.status = "explored" /\ a.score # None

----------------------------------------------------------------------------
(* Properties of _retry_with_backoff on failures that are not retryable *)

NotRetryable(err) ==
    err.kind = "http" /\ err.status \notin {429, 500, 502, 503, 504}

\* C30: when the wrapped function fails with an HTTP status outside
\* {429, 500, 502, 503, 504}, that error is raised at once: no sleep and no
\* attempt follows it; the function fails with the error of the last mirror
\* endpoint it tried, so a mirror that failed earlier in the attempt decides
\* nothing
C30_NonRetryableRaisedAtOnce ==
    /\ \A i \in 1..Len(attemptErrs) :
          /\ attemptErrs[i].endpoint = NumEndpoints(kind)
          /\ attemptErrs[i].attempt = i - 1
          /\ NotRetryable(attemptErrs[i]) =>
                /\ i = Len(attemptErrs)
                /\ pc = "done"
                /\ raisedErr = attemptErrs[i]
                /\ attempt = i - 1
                /\ Len(sleeps) = i - 1
                /\ requests[Len(requests)] =
                       [attempt |-> i - 1, endpoint |-> NumEndpoints(kind), ok |-> FALSE]
    /\ pc = "fetch" /\ NotRetryable(last_error) /\ last_error.attempt = attempt =>
          /\ last_error.endpoint < NumEndpoints(kind)
          /\ Len(sleeps) = attempt
          /\ raisedErr = NoErr

\* a spatial query whose second attempt ended with 404 from the last
\* mirror: raised after one sleep, the one that followed the first attempt
C30_Witness ==
    /\ pc = "done"
    /\ kind = "nature"
    /\ raisedErr.kind = "http"
    /\ raisedErr.status = 404
    /\ raisedErr.attempt = 1
    /\ raisedErr.endpoint = NumOverpassEndpoints
    /\ Len(sleeps) = 1
    /\ Len(requests) = 2 * NumOverpassEndpoints

=============================================================================
